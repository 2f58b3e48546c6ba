--------------------------- MODULE PairingService ---------------------------
(***************************************************************************)
(* What the device store promises its callers, with every operation one    *)
(* step: no lock, no file, no process that can die.  SecurityStore has the *)
(* operations as they run and is shown to implement this module.           *)
(***************************************************************************)
EXTENDS Naturals

CONSTANTS Devices, Codes, NoCode

VARIABLES
    store,    \* the paired devices, those with device-admin, the live code
    minted,   \* codes that ever existed
    granted,  \* the code each device was paired with
    revoked   \* devices that were revoked

vars == <<store, minted, granted, revoked>>

Stores == [paired : SUBSET Devices, admin : SUBSET Devices, code : Codes \cup {NoCode}]

Init ==
    /\ store = [paired |-> {}, admin |-> {}, code |-> NoCode]
    /\ minted = {}
    /\ granted = [d \in Devices |-> NoCode]
    /\ revoked = {}

(* A new code replaces the one before it.                                  *)
Mint(c) ==
    /\ c \notin minted
    /\ minted' = minted \cup {c}
    /\ store' = [store EXCEPT !.code = c]
    /\ UNCHANGED <<granted, revoked>>

(* The live code buys one new device, without device-admin, and is spent.  *)
Grant(d) ==
    /\ store.code # NoCode /\ granted[d] = NoCode
    /\ granted' = [granted EXCEPT ![d] = store.code]
    /\ store' = [store EXCEPT !.paired = @ \cup {d}, !.code = NoCode]
    /\ UNCHANGED <<minted, revoked>>

Revoke(d) ==
    /\ d \in store.paired
    /\ store' = [store EXCEPT !.paired = @ \ {d}, !.admin = @ \ {d}]
    /\ revoked' = revoked \cup {d}
    /\ UNCHANGED <<minted, granted>>

RevokeAll ==
    /\ store' = [paired |-> {}, admin |-> {}, code |-> NoCode]
    /\ revoked' = revoked \cup store.paired
    /\ UNCHANGED <<minted, granted>>

(* Only the PC's user hands device-admin out, or takes it back.            *)
SetAdmin(admins) ==
    /\ admins \subseteq store.paired
    /\ store' = [store EXCEPT !.admin = admins]
    /\ UNCHANGED <<minted, granted, revoked>>

Next ==
    \/ \E c \in Codes : Mint(c)
    \/ \E d \in Devices : Grant(d) \/ Revoke(d)
    \/ RevokeAll
    \/ \E admins \in SUBSET Devices : SetAdmin(admins)

Spec == Init /\ [][Next]_vars
=============================================================================
