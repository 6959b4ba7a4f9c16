------------------------------ MODULE TarPaths ------------------------------
(***************************************************************************)
(* Names of files in the archives that the MCP server packs and reads      *)
(* (pkg/nextflow/tar_util.go, pkg/mcp/artifact_get.go).  A path is the     *)
(* sequence of its segments, split at "/": "/a" is <<"", "a">>, the empty  *)
(* path <<"">>.  A segment "\\" stands for a backslash between its         *)
(* neighbours, neither of which is ".." or ".".                            *)
(***************************************************************************)
EXTENDS Naturals, Sequences, SequencesExt, FiniteSetsExt

EmptyPath == <<"">>

IsRooted(p) == Len(p) > 1 /\ Head(p) = ""

\* strings.TrimPrefix(p, "/"): one slash only.
TrimSlash(p) == IF IsRooted(p) THEN Tail(p) ELSE p

\* One segment s of path.Clean after those in done are left: one in gaps is
\* nothing, and ".." takes the segment before it along, but there is nothing
\* above a root.
Walk(rooted, gaps, done, s) ==
  IF s \in gaps THEN done
  ELSE IF s # ".." THEN Append(done, s)
  ELSE IF done # <<>> /\ Last(done) # ".." THEN Front(done)
  ELSE IF rooted THEN done
  ELSE Append(done, s)

\* The segments that path.Clean leaves of p.
Kept(p, gaps) ==
  LET kept[i \in 0..Len(p)] ==
        IF i = 0 THEN <<>> ELSE Walk(IsRooted(p), gaps, kept[i - 1], p[i])
  IN  kept[Len(p)]

CleanOf(p, gaps) ==
  LET kept == Kept(p, gaps)
  IN  IF IsRooted(p) THEN <<"">> \o (IF kept = <<>> THEN EmptyPath ELSE kept)
      ELSE IF kept = <<>> THEN <<".">> ELSE kept

\* path.Clean: empty segments and "." go.
Clean(p) == CleanOf(p, {"", "."})

\* SanitizeTarPath, where a backslash counts as one more slash: NoPath for a
\* name it refuses.
NoPath == <<>>

SanitizeTarPath(p) ==
  LET q == TrimSlash(CleanOf(p, {"", ".", "\\"}))
  IN  IF p = EmptyPath \/ q \in {EmptyPath, <<".">>} \/ ".." \in ToSet(q)
      THEN NoPath ELSE q

\* The file that is added to every archive, at its end.
Manifest == <<"MANIFEST.json">>

\* The path that extractFromTarAuto compares with the names in the archive:
\* NoPath for one it refuses (".." alone is merely never found).
InnerPath(p) ==
  LET q == Clean(TrimSlash(p))
  IN IF q = <<".">> \/ (Len(q) > 1 /\ Head(q) = "..") THEN NoPath ELSE q

-----------------------------------------------------------------------------
(* Archives: [parts |-> sequence of [path, data], whole |-> the trailer is *)
(* there].                                                                 *)

\* extractFromTarReader: the first part of that name.  An archive without a
\* byte reads as an empty one, a cut one fails where it was cut.
Extract(archive, p) ==
  LET inner == InnerPath(p)
      hits == {i \in DOMAIN archive.parts :
                 Clean(TrimSlash(archive.parts[i].path)) = inner}
  IN IF inner = NoPath THEN [result |-> "refused", parts |-> <<>>]
     ELSE IF hits # {}
       THEN [result |-> "blob", parts |-> <<archive.parts[Min(hits)]>>]
     ELSE IF archive.whole \/ archive.parts = <<>>
       THEN [result |-> "absent", parts |-> <<>>]
     ELSE [result |-> "broken", parts |-> <<>>]
=============================================================================
