----------------------------- MODULE MCRequest -----------------------------
(* Two tool calls, text, and a block whose fields are wrong; two billing    *)
(* headers, of which one does not name an entry point.                      *)
EXTENDS RequestBody

CONSTANT Ids

MCBlocks ==
    [kind : {"tool_use", "tool_result"}, id : Ids, sound : {TRUE}]
    \cup [kind : {"text"}, id : {None}, sound : BOOLEAN]

MCHeaders == {<<"cc_version", "cc_entrypoint", "cch">>, <<"cc_version", "cch">>}

IdSymmetry == Permutations(Ids)
=============================================================================
