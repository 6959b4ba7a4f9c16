----------------------------- MODULE ToolHeader -----------------------------
(***************************************************************************)
(* What a pipeline archive says of its tool (pkg/nextflow/nextflow.go):    *)
(* the search for ivcap.yaml and ivcap-tool.yaml, the schema made of the   *)
(* simplified header, and the validation of a given one.                   *)
(*                                                                         *)
(* An archive is a sequence of [path, data].  The data of a file is        *)
(*   [kind |-> "simple", name, params, samples]   an ivcap.yaml,           *)
(*   [kind |-> "tool", fn]                        an ivcap-tool.yaml,      *)
(*   or of another kind, which does not parse as either.                   *)
(* params is a sequence of [name, optional]; an empty name is one that is  *)
(* missing.  A JSON schema is a record of what ValidateFnSchema and the    *)
(* validation of requests look at.  Files above 2 MiB are left out.        *)
(***************************************************************************)
EXTENDS TarPaths, FiniteSets

SimpleToolFileName == "ivcap.yaml"
ToolFileName == "ivcap-tool.yaml"

-----------------------------------------------------------------------------
(* The search                                                              *)

NotFound  == [result |-> "absent", data |-> [kind |-> "empty"]]
Found(d)  == [result |-> "found", data |-> d]
Failed    == [result |-> "error", data |-> [kind |-> "empty"]]

\* Mutant: the first file of that name in any directory.
FindFileAnywhere(parts, whole, name) ==
  LET hits == {i \in DOMAIN parts : Last(Clean(TrimSlash(parts[i].path))) = Last(name)}
  IN  IF hits # {} THEN Found(parts[Min(hits)].data)
      ELSE IF whole THEN NotFound ELSE Failed

\* ExtractFileFromTarReader: the first file with exactly that path, or the
\* only one with that name in any directory.  A cut archive fails when its
\* end is reached; no such file is no error.
FindFile(parts, whole, name) ==
  LET target == Clean(TrimSlash(name))
      paths == [i \in DOMAIN parts |-> Clean(TrimSlash(parts[i].path))]
      exact == {i \in DOMAIN parts : paths[i] = target}
      named == {i \in DOMAIN parts : <<Last(paths[i])>> = target}
      hits  == IF exact # {} THEN {Min(exact)} ELSE named
  IN  IF \/ target \in {<<".">>, EmptyPath}
         \/ exact = {} /\ (~whole \/ Cardinality(named) > 1)
      THEN Failed
      ELSE IF hits = {} THEN NotFound
      ELSE Found(parts[Min(hits)].data)

-----------------------------------------------------------------------------
(* Schemas                                                                 *)

NoSchema == [meta |-> "none", keywords |-> {}, type |-> "none",
             properties |-> "none", required |-> {}, samples |-> 0]

\* ValidateFnSchema; a header without fn-schema is accepted.
ValidateFnSchema(fn) ==
  \/ fn = NoSchema
  \/ /\ fn.meta = "json-schema.org"
     /\ fn.keywords \cap {"type", "properties", "$ref", "allOf", "anyOf",
                          "oneOf"} # {}
     /\ "type" \in fn.keywords =>
          fn.type \in {"null", "boolean", "object", "array", "number",
                       "integer", "string"}
     /\ "properties" \in fn.keywords => fn.properties = "object"

\* Mutant: every parameter is required.
BuildFnSchemaStrict(tool) ==
  [meta |-> "json-schema.org", keywords |-> {"type", "properties"},
   type |-> "object", properties |-> "object",
   required |-> {p.name : p \in ToSet(tool.params)},
   samples |-> Len(tool.samples)]

\* buildFnSchemaFromSimplifiedTool: a parameter is required unless it is
\* optional; samples, when declared, come in rows of exactly that length.
BuildFnSchema(tool) ==
  [meta |-> "json-schema.org", keywords |-> {"type", "properties"},
   type |-> "object", properties |-> "object",
   required |-> {p.name : p \in {q \in ToSet(tool.params) : ~q.optional}},
   samples |-> Len(tool.samples)]

NoHeader(result) == [result |-> result, schema |-> NoSchema]

\* ConvertSimpleToolToToolHeader: the schema, or an error.
ConvertSimpleTool(tool) ==
  LET named == tool.name # "" /\ "" \notin ToSet(tool.samples)
               /\ \A p \in ToSet(tool.params) : p.name # ""
      fn == BuildFnSchema(tool)
  IN  IF named /\ ValidateFnSchema(fn)
      THEN [result |-> "found", schema |-> fn]
      ELSE NoHeader("error")

SimpleHeader(data) ==
  IF data.kind = "simple" THEN ConvertSimpleTool(data) ELSE NoHeader("error")

FullHeader(data) ==
  IF data.kind = "tool" /\ ValidateFnSchema(data.fn)
  THEN [result |-> "found", schema |-> data.fn] ELSE NoHeader("error")

\* LoadToolHeaderFromArchivePath and ...Bytes: the simplified header goes
\* before the other, wherever it lies.
HeaderFrom(simple, tool) ==
  CASE simple.result = "found" -> SimpleHeader(simple.data)
    [] simple.result = "error" -> NoHeader("error")
    [] simple.result = "absent" ->
         IF tool.result = "found" THEN FullHeader(tool.data)
                                  ELSE NoHeader(tool.result)

\* The one header, as a set, so that each search is evaluated once.
LoadToolHeader(parts) ==
  {HeaderFrom(simple, tool) :
     simple \in {FindFile(parts, TRUE, <<SimpleToolFileName>>)},
     tool \in {FindFile(parts, TRUE, <<ToolFileName>>)}}

-----------------------------------------------------------------------------
(* What a schema means, for the properties                                 *)

\* A request gives some parameters and a row of samples (0: none).
Admits(fn, given, row) ==
  /\ fn.required \subseteq given
  /\ fn.samples # 0 => row = fn.samples
=============================================================================
