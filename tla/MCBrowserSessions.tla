-------------------------- MODULE MCBrowserSessions -------------------------
(* Instances of BrowserSessions for TLC. *)
EXTENDS BrowserSessions, TLC

CONSTANTS t1, t2, l1, l2, l3, u1, u2

OwnTab == [l \in Lifetimes |-> IF l = l2 THEN t2 ELSE t1]

(* The tabs, each with its studio, are interchangeable, and so are accounts. *)
TabsSwapped == t1 :> t2 @@ t2 :> t1 @@ l1 :> l2 @@ l2 :> l1
Interchangeable == Permutations(Accounts) \cup {TabsSwapped}
=============================================================================
