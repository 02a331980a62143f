---------------------------- MODULE MCChatBridge ----------------------------
(* Instances of ChatBridge for TLC.                                         *)
EXTENDS ChatBridge

(* A connector that may post, with its token set or forgotten, and one that *)
(* may not.                                                                 *)
MCConfigs == {[writes |-> TRUE, token |-> "set"], [writes |-> TRUE, token |-> "absent"],
              [writes |-> FALSE, token |-> "set"]}

(* Of one message: its events sent again, in one process or two, and an     *)
(* agent's tools in two; of two messages the tools, or two processes; and   *)
(* three messages, so that a reply is followed up.                          *)
Budget(p, m, r, t, l) == [posts |-> p, messages |-> m, resent |-> r, tools |-> t, lives |-> l]

MCBudgets == {Budget(1, 2, 2, 0, 1), Budget(1, 2, 1, 0, 2), Budget(1, 2, 0, 1, 2),
              Budget(2, 2, 0, 1, 1), Budget(2, 2, 0, 0, 2), Budget(2, 3, 0, 0, 1)}

=============================================================================
