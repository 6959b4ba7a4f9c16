------------------------- MODULE MCNextflowPublish -------------------------
(* Instances of NextflowPublish small enough for TLC.                      *)
EXTENDS NextflowPublish, TLC

File(path, data) == [path |-> path, data |-> data]
Script == [kind |-> "script"]

\* A simplified header with a required and an optional parameter, and pairs as
\* samples.
Simple == [kind |-> "simple", name |-> "tool", samples |-> <<"l", "r">>,
           params |-> <<[name |-> "p", optional |-> FALSE],
                        [name |-> "q", optional |-> TRUE]>>]

Plain == [Simple EXCEPT !.params = <<>>, !.samples = <<>>]
Nameless == [Simple EXCEPT !.name = ""]

Full == [kind |-> "tool",
         fn |-> [NoSchema EXCEPT !.meta = "json-schema.org",
                                 !.keywords = {"type"}, !.type = "object",
                                 !.required = {"q"}]]

BadFull == [Full EXCEPT !.fn.type = "struct"]

\* The header at the top beside another in a directory; the other kind only,
\* in a directory; two, of which neither is at the top.
MCArchives == {
  <<File(<<"lib", "ivcap.yaml">>, Plain), File(<<".", "ivcap.yaml">>, Simple),
    File(<<"ivcap-tool.yaml">>, BadFull)>>,
  <<File(<<"main.nf">>, Script), File(<<"d", "ivcap-tool.yaml">>, Full)>>,
  <<File(<<"a", "ivcap.yaml">>, Simple), File(<<"b", "ivcap.yaml">>, Simple)>>}

MCLibrary == <<File(<<"x", "ivcap.yaml">>, Simple), File(<<"bin", "s.sh">>, Script)>>

Text(path, data) == [path |-> path, type |-> "text", data |-> data, inner |-> EmptyPath]
Artifact(path, in) == [path |-> path, type |-> "artifact", data |-> Script, inner |-> in]

\* The header from the library; a path that is spelled twice; a missing inner
\* file; a header that does not hold.
MCSourceLists == {
  <<Artifact(<<"ivcap.yaml">>, <<"", "ivcap.yaml">>), Artifact(<<"lib">>, EmptyPath)>>,
  <<Text(<<"d", "..", "ivcap.yaml">>, Simple), Text(<<"ivcap.yaml">>, Nameless)>>,
  <<Text(<<"", "ivcap-tool.yaml">>, Full), Artifact(<<"s">>, <<"no">>)>>,
  <<Text(<<"ivcap-tool.yaml">>, BadFull)>>}

Publishing == Permutations(Publishers)
=============================================================================
