----------------------------- MODULE MCConsole ------------------------------
(* Lengths for TLC, in the order they have in the code: a message of the UART
   handler is shorter than one of the guest's, one of a fault is longer.   *)
EXTENDS Console

MCMsgLen == [m \in Messages |-> CASE m = "G1" -> 3 [] m = "fault" -> 4
                                  [] m \in {"B", "V", "G2"} -> 1 [] OTHER -> 2]
=============================================================================
