---------------------------- MODULE MCRpcSession ----------------------------
(* A message with one tool call without input, for which the CLI may send an *)
(* empty fragment; the CLI may also name an unknown tool, emit events out of *)
(* order, or stop before the end.                                            *)
EXTENDS RpcSession, TLC

CONSTANTS cliTool, tool, unknown

MCToolMap == cliTool :> tool
MCOtherTools == {unknown}
MCParts == {Empty}
MCObjectTexts == {}

MCEvents ==
    {[type |-> "message_start", valid |-> TRUE],
     [type |-> "content_block_delta", index |-> 0,
      delta |-> "input_json_delta", part |-> Empty],
     [type |-> "content_block_stop", index |-> 0],
     [type |-> "message_delta", stop |-> "string"],
     [type |-> "message_stop"]}
    \cup [type : {"content_block_start"}, index : {0}, kind : {"tool_use"},
          sound : {TRUE}, name : {cliTool, unknown}]
=============================================================================
