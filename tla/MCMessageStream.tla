-------------------------- MODULE MCMessageStream --------------------------
(* Blocks side by side, tool input in fragments, one of them empty, and *)
(* misplaced events.                                                    *)
EXTENDS MessageStream, TLC

CONSTANTS open, close, cliTool, tool

MCParts == {open, close, Empty}
MCObjectTexts == {<<open, close>>}
MCToolMap == cliTool :> tool

MCEvents ==
    {[type |-> "message_start", valid |-> TRUE],
     [type |-> "message_delta", stop |-> "string"],
     [type |-> "message_delta", stop |-> "null"],
     [type |-> "message_stop"],
     [type |-> "error"],
     [type |-> "content_block_start", index |-> 1, kind |-> "text",
      sound |-> TRUE, name |-> None]}
    \cup [type : {"content_block_start"}, index : {0}, kind : {"tool_use"},
          sound : BOOLEAN, name : {tool}]
    \cup [type : {"content_block_delta"}, index : {0},
          delta : {"input_json_delta"}, part : MCParts]
    \cup [type : {"content_block_delta"}, index : {0, 1},
          delta : {"text_delta"}, part : {open, None}]
    \cup [type : {"content_block_stop"}, index : {0, 1}]
=============================================================================
