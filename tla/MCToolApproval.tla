---------------------------- MODULE MCToolApproval ----------------------------
(* Instances of ToolApproval for TLC: two runs of one conversation ask for *)
(* writing tools, which may be granted together; one of them also asks for *)
(* a tool that has to be approved each time; a run of another conversation *)
(* asks for a writing tool.                                                *)
EXTENDS ToolApproval

CONSTANTS q1, q2, q3, q4, r1, r2, r3

MCRunOf == [q \in Requests |-> IF q \in {q1, q3} THEN r1 ELSE IF q = q2 THEN r2 ELSE r3]

MCGrantKey == [q \in Requests |-> IF q \in {q1, q2} THEN <<"here", "write">>
                                  ELSE IF q = q3 THEN <<"here", "send">>
                                  ELSE <<"there", "write">>]
===============================================================================
