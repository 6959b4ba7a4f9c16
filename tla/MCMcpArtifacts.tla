--------------------------- MODULE MCMcpArtifacts ---------------------------
(* Instances of McpArtifacts small enough for TLC.                         *)
EXTENDS McpArtifacts

\* The name "a" alone and in several spellings, unnamed parts, and names that
\* are refused or clash.
MCContents == {
  <<<<"a">>>>,
  <<<<"a">>, <<"d", "\\", "a">>>>,
  <<<<"", "", "a">>, EmptyPath>>,
  <<<<"d", "..", "a">>, <<".", "a">>>>,
  <<<<"part-2.txt">>, EmptyPath>>,
  <<<<"a">>, <<"..", "a">>>>,
  <<<<"", "MANIFEST.json">>, <<"a">>>>}

MCPaths == {<<"a">>, <<"", "d", ".", "a">>, <<"", "">>}

Handled == Permutations(Handlers)
=============================================================================
