------------------------- MODULE Workbench_proofs --------------------------
(***************************************************************************)
(* Theorems about the phone's workbench, for any directories, credentials  *)
(* and number of requests under way, answered in any order.                *)
(*                                                                         *)
(* The inductive invariant is over the bag of requests: what a view shows, *)
(* and what each open read and write captured, come from the directory the *)
(* view is in, or overlapped a listing; the flags count the open requests. *)
(***************************************************************************)
EXTENDS Workbench, TLAPS

USE WorkbenchAssumption

-----------------------------------------------------------------------------
(***************************************************************************)
(* Bags of requests.                                                       *)
(***************************************************************************)
LEMMA BagAdd ==
    ASSUME NEW A, NEW B, IsABag(A), IsABag(B)
    PROVE  /\ IsABag(A (+) B)
           /\ BagToSet(A (+) B) = BagToSet(A) \cup BagToSet(B)
           /\ \A n : Copies(n, A (+) B) = Copies(n, A) + Copies(n, B)
BY DEF IsABag, BagToSet, Copies, (+)

LEMMA BagOne ==
    ASSUME NEW m
    PROVE  /\ IsABag(One(m)) /\ BagToSet(One(m)) = {m}
           /\ \A n : Copies(n, One(m)) = IF n = m THEN 1 ELSE 0
BY DEF IsABag, BagToSet, One, Copies, SetToBag

LEMMA BagTake ==
    ASSUME NEW B, IsABag(B), NEW m \in BagToSet(B)
    PROVE  /\ IsABag(B (-) One(m))
           /\ BagToSet(B (-) One(m)) \subseteq BagToSet(B)
           /\ \A n \in BagToSet(B) : n # m => n \in BagToSet(B (-) One(m))
           /\ Copies(m, B) = 1 => m \notin BagToSet(B (-) One(m))
           /\ \A n : Copies(n, B (-) One(m)) = Copies(n, B) - (IF n = m THEN 1 ELSE 0)
BY DEF IsABag, BagToSet, One, Copies, SetToBag, (-)

(* What marking the readings a listing overlaps leaves of a bag.           *)
LEMMA OverlapIs ==
    ASSUME NEW m \in Requests
    PROVE  /\ Overlap(m) \in Requests
           /\ Overlap(m).op = m.op /\ Overlap(m).gone = m.gone /\ Overlap(m).at = m.at
           /\ Overlap(m).cred = m.cred /\ Overlap(m).from = m.from
           /\ m.op = "read" /\ m.gone = FALSE => Overlap(m).raced = TRUE
           /\ ~(m.op = "read" /\ m.gone = FALSE) => Overlap(m) = m
BY DEF Overlap, Requests

LEMMA BagOverlap ==
    ASSUME NEW B, IsABag(B), BagToSet(B) \subseteq Requests
    PROVE  /\ IsABag(OverlapAll(B))
           /\ BagToSet(OverlapAll(B)) = {Overlap(m) : m \in BagToSet(B)}
           /\ BagToSet(OverlapAll(B)) \subseteq Requests
           /\ \A n \in Requests : ~(n.op = "read" /\ n.gone = FALSE) =>
                 /\ n \in BagToSet(OverlapAll(B)) <=> n \in BagToSet(B)
                 /\ Copies(n, OverlapAll(B)) = Copies(n, B)
<1>1. BagToSet(OverlapAll(B)) = {Overlap(m) : m \in BagToSet(B)}
    BY DEF OverlapAll, BagToSet
<1>2. \A n : Copies(n, B) \in Nat /\ (n \in BagToSet(B) => Copies(n, B) > 0)
    BY DEF IsABag, BagToSet, Copies
<1>3. ASSUME NEW m \in BagToSet(B)
      PROVE  OverlapAll(B)[Overlap(m)] \in Nat /\ OverlapAll(B)[Overlap(m)] > 0
  <2>1. m \in Requests
      OBVIOUS
  <2>2. CASE m.op = "read" /\ m.gone = FALSE
    <3>1. CASE m.raced = TRUE
      <4>1. Overlap(m) = m
          BY <2>1, <2>2, <3>1 DEF Overlap, Requests
      <4> QED
          BY <4>1, <2>2, <1>2, <1>1 DEF OverlapAll
    <3>2. CASE m.raced = FALSE
      <4>1. [Overlap(m) EXCEPT !.raced = FALSE] = m /\ Overlap(m).op = "read" /\ Overlap(m).gone = FALSE
          BY <2>1, <2>2, <3>2 DEF Overlap, Requests
      <4> QED
          BY <4>1, <1>2, <1>1 DEF OverlapAll
    <3> QED
        BY <2>1, <3>1, <3>2 DEF Requests
  <2>3. CASE ~(m.op = "read" /\ m.gone = FALSE)
    <3>1. Overlap(m) = m
        BY <2>1, <2>3, OverlapIs
    <3> QED
        BY <3>1, <2>3, <1>2, <1>1 DEF OverlapAll
  <2> QED
      BY <2>2, <2>3
<1>4. IsABag(OverlapAll(B))
  <2>1. \A n \in BagToSet(OverlapAll(B)) : OverlapAll(B)[n] \in Nat /\ OverlapAll(B)[n] > 0
      BY <1>1, <1>3
  <2>2. OverlapAll(B) = [n \in BagToSet(OverlapAll(B)) |-> OverlapAll(B)[n]]
      BY DEF OverlapAll, BagToSet
  <2> QED
      BY <2>1, <2>2 DEF IsABag, BagToSet
<1>5. ASSUME NEW n \in Requests, ~(n.op = "read" /\ n.gone = FALSE)
      PROVE  /\ n \in BagToSet(OverlapAll(B)) <=> n \in BagToSet(B)
             /\ Copies(n, OverlapAll(B)) = Copies(n, B)
  <2>1. \A m \in BagToSet(B) : Overlap(m) = n <=> m = n
      BY <1>5, OverlapIs
  <2>2. n \in BagToSet(OverlapAll(B)) <=> n \in BagToSet(B)
      BY <1>1, <2>1
  <2>3. n \in BagToSet(OverlapAll(B)) => OverlapAll(B)[n] = Copies(n, B)
    <3>1. ~(n.op = "read" /\ ~n.gone)
        BY <1>5 DEF Requests
    <3>2. n \in BagToSet(OverlapAll(B)) => OverlapAll(B)[n] = Copies(n, B) + 0
        BY <1>1, <3>1 DEF OverlapAll
    <3> QED
        BY <1>2, <3>2
  <2> QED
      BY <2>2, <2>3 DEF Copies
<1>6. BagToSet(OverlapAll(B)) \subseteq Requests
  <2>1. \A m \in BagToSet(B) : Overlap(m) \in Requests
      BY OverlapIs
  <2> QED
      BY <1>1, <2>1, Zenon
<1> QED
    BY <1>1, <1>4, <1>5, <1>6

(* A closed view leaves every request without a view.                      *)
LEMMA LeaveIs ==
    ASSUME NEW m \in Requests
    PROVE  /\ Leave(m) \in Requests /\ Leave(m).gone = TRUE
           /\ Leave(m).op = m.op /\ Leave(m).cred = m.cred /\ Leave(m).at = m.at
           /\ Leave(m).from = m.from /\ Leave(m).raced = m.raced
BY DEF Leave, Requests

LEMMA BagLeave ==
    ASSUME NEW B, IsABag(B), BagToSet(B) \subseteq Requests
    PROVE  /\ IsABag(LeaveAll(B))
           /\ BagToSet(LeaveAll(B)) = {Leave(m) : m \in BagToSet(B)}
           /\ BagToSet(LeaveAll(B)) \subseteq Requests
<1>1. BagToSet(LeaveAll(B)) = {Leave(m) : m \in BagToSet(B)}
    BY DEF LeaveAll, BagToSet
<1>2. \A n : Copies(n, B) \in Nat /\ (n \in BagToSet(B) => Copies(n, B) > 0)
    BY DEF IsABag, BagToSet, Copies
<1>3. ASSUME NEW m \in BagToSet(B)
      PROVE  LeaveAll(B)[Leave(m)] \in Nat /\ LeaveAll(B)[Leave(m)] > 0
  <2>1. m \in Requests
      OBVIOUS
  <2>2. Leave(m) = m \/ [Leave(m) EXCEPT !.gone = FALSE] = m
    <3>1. m.gone = TRUE => Leave(m) = m
        BY <2>1 DEF Leave, Requests
    <3>2. m.gone = FALSE => [Leave(m) EXCEPT !.gone = FALSE] = m
        BY <2>1 DEF Leave, Requests
    <3> QED
        BY <2>1, <3>1, <3>2 DEF Requests
  <2>3. LeaveAll(B)[Leave(m)] = Copies(Leave(m), B) + Copies([Leave(m) EXCEPT !.gone = FALSE], B)
      BY <1>1 DEF LeaveAll
  <2>4. Copies(Leave(m), B) > 0 \/ Copies([Leave(m) EXCEPT !.gone = FALSE], B) > 0
      BY <1>2, <2>2, Zenon
  <2>5. Copies(Leave(m), B) \in Nat /\ Copies([Leave(m) EXCEPT !.gone = FALSE], B) \in Nat
      BY <1>2, Zenon
  <2> QED
      BY <2>3, <2>4, <2>5
<1>4. IsABag(LeaveAll(B))
  <2>1. \A n \in BagToSet(LeaveAll(B)) : LeaveAll(B)[n] \in Nat /\ LeaveAll(B)[n] > 0
      BY <1>1, <1>3
  <2>2. LeaveAll(B) = [n \in BagToSet(LeaveAll(B)) |-> LeaveAll(B)[n]]
      BY DEF LeaveAll, BagToSet
  <2> QED
      BY <2>1, <2>2 DEF IsABag, BagToSet
<1>5. BagToSet(LeaveAll(B)) \subseteq Requests
  <2>1. \A m \in BagToSet(B) : Leave(m) \in Requests
      BY LeaveIs
  <2> QED
      BY <1>1, <2>1, Zenon
<1> QED
    BY <1>1, <1>4, <1>5

-----------------------------------------------------------------------------
(***************************************************************************)
(* What holds between a view v and a bag of requests, and what keeps it.   *)
(***************************************************************************)
Of(bag, ops) == {m \in BagToSet(bag) : m.op \in ops /\ ~m.gone}

Typed(v, bag) == v \in Views /\ IsABag(bag) /\ BagToSet(bag) \subseteq Requests

(* Without a view no request has one; an unraced reading of the view reads *)
(* in the directory shown, and no listing is asked for; ...                *)
AskOK(m, v, bag) ==
    /\ ~v.mounted => m.gone
    /\ m.op = "read" => m.at # None
    /\ m.op = "read" /\ ~m.gone /\ ~m.raced => m.at = v.path /\ Of(bag, {"list"}) = {}
    /\ m.op = "write" => m.raced \/ m.at = m.from

(* ... so is an unraced text shown of that directory, until it is edited:  *)
(* what is edited is saved where it was read.                              *)
ViewOK(v, bag) ==
    /\ v.preview # None /\ ~v.preview.raced => v.preview.from = v.path /\ Of(bag, {"list"}) = {}
    /\ v.editing # None /\ ~v.editing.raced => v.editing.at = v.editing.from

TextsOK(v, bag) == ViewOK(v, bag) /\ \A m \in BagToSet(bag) : AskOK(m, v, bag)

Opens(flag, ops, bag) ==
    /\ flag <=> Of(bag, ops) # {}
    /\ \A m, n \in Of(bag, ops) : m = n /\ Copies(m, bag) = 1

FlagsOK(v, bag) ==
    /\ Opens(v.busy, {"ensureWorkspace", "connect"}, bag)
    /\ Opens(v.pairing, {"pair"}, bag)
    /\ v.loading => Of(bag, {"list"}) # {}

Good(v, bag) == Typed(v, bag) /\ TextsOK(v, bag) /\ FlagsOK(v, bag)

(* One request leaves the bag.                                             *)
LEMMA OfTake ==
    ASSUME NEW B, IsABag(B), NEW m \in BagToSet(B), NEW ops
    PROVE  /\ Of(B (-) One(m), ops) \subseteq Of(B, ops)
           /\ m \notin Of(B, ops) => Of(B (-) One(m), ops) = Of(B, ops)
           /\ \A n \in BagToSet(B) : n # m => Copies(n, B (-) One(m)) = Copies(n, B)
<1>1. \A n : Copies(n, B) \in Nat
    BY DEF IsABag, BagToSet, Copies
<1>2. \A n \in BagToSet(B) : n # m => Copies(n, B (-) One(m)) = Copies(n, B)
    BY <1>1, BagTake
<1>3. /\ BagToSet(B (-) One(m)) \subseteq BagToSet(B)
      /\ \A n \in BagToSet(B) : n # m => n \in BagToSet(B (-) One(m))
    BY BagTake
<1>4. /\ Of(B (-) One(m), ops) \subseteq Of(B, ops)
      /\ m \notin Of(B, ops) => Of(B (-) One(m), ops) = Of(B, ops)
    BY <1>3, Zenon DEF Of
<1> QED
    BY <1>2, <1>4

LEMMA OpensTake ==
    ASSUME NEW B, IsABag(B), NEW m \in BagToSet(B), NEW ops, NEW flag, Opens(flag, ops, B)
    PROVE  /\ m \notin Of(B, ops) => Opens(flag, ops, B (-) One(m))
           /\ m \in Of(B, ops) => Of(B (-) One(m), ops) = {}
<1>1. ASSUME m \notin Of(B, ops) PROVE Opens(flag, ops, B (-) One(m))
  <2>1. Of(B (-) One(m), ops) = Of(B, ops)
      BY <1>1, OfTake
  <2>2. \A n \in Of(B, ops) : Copies(n, B (-) One(m)) = Copies(n, B)
      BY <1>1, OfTake DEF Of
  <2> QED
      BY <2>1, <2>2 DEF Opens
<1>2. ASSUME m \in Of(B, ops) PROVE Of(B (-) One(m), ops) = {}
  <2>1. Of(B, ops) = {m} /\ Copies(m, B) = 1
      BY <1>2 DEF Opens
  <2>2. m \notin BagToSet(B (-) One(m))
      BY <2>1, BagTake
  <2> QED
      BY <2>1, <2>2, OfTake DEF Of
<1> QED
    BY <1>1, <1>2

(* One request joins the bag.                                              *)
LEMMA OfAdd ==
    ASSUME NEW B, IsABag(B), NEW m, NEW ops
    PROVE  /\ Of(B (+) One(m), ops) = IF m.op \in ops /\ ~m.gone THEN Of(B, ops) \cup {m} ELSE Of(B, ops)
           /\ \A n : n # m => Copies(n, B (+) One(m)) = Copies(n, B)
           /\ m \notin BagToSet(B) => Copies(m, B (+) One(m)) = 1
<1>1. BagToSet(B (+) One(m)) = BagToSet(B) \cup {m}
      /\ \A n : Copies(n, B (+) One(m)) = Copies(n, B) + (IF n = m THEN 1 ELSE 0)
    BY BagAdd, BagOne
<1>2. \A n : Copies(n, B) \in Nat /\ (n \notin BagToSet(B) => Copies(n, B) = 0)
    BY DEF IsABag, BagToSet, Copies
<1>3. /\ \A n : n # m => Copies(n, B (+) One(m)) = Copies(n, B)
      /\ m \notin BagToSet(B) => Copies(m, B (+) One(m)) = 1
    BY <1>1, <1>2
<1>4. Of(B (+) One(m), ops) = IF m.op \in ops /\ ~m.gone THEN Of(B, ops) \cup {m} ELSE Of(B, ops)
    BY <1>1, Zenon DEF Of
<1> QED
    BY <1>3, <1>4

LEMMA OpensAdd ==
    ASSUME NEW B, IsABag(B), NEW m, NEW ops, NEW flag
    PROVE  /\ Opens(flag, ops, B) /\ (m.op \notin ops \/ m.gone) => Opens(flag, ops, B (+) One(m))
           /\ Of(B, ops) = {} /\ m.op \in ops /\ ~m.gone => Opens(TRUE, ops, B (+) One(m))
<1>1. ASSUME Opens(flag, ops, B), m.op \notin ops \/ m.gone PROVE Opens(flag, ops, B (+) One(m))
  <2>1. Of(B (+) One(m), ops) = Of(B, ops) /\ m \notin Of(B, ops)
    <3>1. m \notin Of(B, ops)
        BY <1>1, Zenon DEF Of
    <3>2. Of(B (+) One(m), ops) = IF m.op \in ops /\ ~m.gone THEN Of(B, ops) \cup {m} ELSE Of(B, ops)
        BY OfAdd
    <3> QED
        BY <1>1, <3>1, <3>2, Zenon
  <2>2. \A n \in Of(B, ops) : Copies(n, B (+) One(m)) = Copies(n, B)
      BY <2>1, OfAdd
  <2> QED
      BY <1>1, <2>1, <2>2, Zenon DEF Opens
<1>2. ASSUME Of(B, ops) = {}, m.op \in ops, ~m.gone PROVE Opens(TRUE, ops, B (+) One(m))
  <2>1. Of(B (+) One(m), ops) = {m} /\ m \notin BagToSet(B)
      BY <1>2, OfAdd DEF Of
  <2>2. Copies(m, B (+) One(m)) = 1
      BY <2>1, OfAdd
  <2> QED
      BY <2>1, <2>2 DEF Opens
<1> QED
    BY <1>1, <1>2

(* Requests leave, or join, that the texts do not depend on.               *)
LEMMA TextsTo ==
    ASSUME NEW v, NEW B, NEW C, TextsOK(v, B), Of(C, {"list"}) \subseteq Of(B, {"list"}),
           \A n \in BagToSet(C) : n \in BagToSet(B) \/ AskOK(n, v, C)
    PROVE  TextsOK(v, C)
<1>1. Of(B, {"list"}) = {} => Of(C, {"list"}) = {}
    OBVIOUS
<1>2. ViewOK(v, C)
    BY <1>1, Zenon DEF TextsOK, ViewOK
<1>3. \A n \in BagToSet(B) : AskOK(n, v, C)
    BY <1>1, Zenon DEF TextsOK, AskOK
<1> QED
    BY <1>2, <1>3 DEF TextsOK

LEMMA TextsTake ==
    ASSUME NEW v, NEW B, IsABag(B), NEW m \in BagToSet(B), TextsOK(v, B)
    PROVE  TextsOK(v, B (-) One(m))
BY OfTake, BagTake, TextsTo

(* A view whose credential changes stays as good as it was.                *)
LEMMA GoodCred ==
    ASSUME NEW v, NEW B, Good(v, B), NEW c \in Creds \cup {None}
    PROVE  Good([v EXCEPT !.cred = c], B)
<1> DEFINE w == [v EXCEPT !.cred = c]
<1>1. /\ w \in Views
      /\ w.mounted = v.mounted /\ w.path = v.path /\ w.preview = v.preview /\ w.editing = v.editing
      /\ w.busy = v.busy /\ w.pairing = v.pairing /\ w.loading = v.loading
    BY DEF Good, Typed, Views
<1> HIDE DEF w
<1>2. Typed(w, B)
    BY <1>1 DEF Good, Typed
<1>3. TextsOK(w, B)
    BY <1>1, Zenon DEF Good, TextsOK, ViewOK, AskOK
<1>4. FlagsOK(w, B)
    BY <1>1, Zenon DEF Good, FlagsOK
<1> QED
    BY <1>2, <1>3, <1>4 DEF Good, w

(* A request that no flag is about has its answer.                         *)
LEMMA GoodTake ==
    ASSUME NEW v, NEW B, Good(v, B), NEW m \in BagToSet(B),
           m.gone \/ m.op \notin {"list", "ensureWorkspace", "connect", "pair"}
    PROVE  Good(v, B (-) One(m))
<1>1. IsABag(B)
    BY DEF Good, Typed
<1>2. Typed(v, B (-) One(m))
    BY <1>1, BagTake DEF Good, Typed
<1>3. TextsOK(v, B (-) One(m))
    BY <1>1, TextsTake DEF Good
<1>4. m \notin Of(B, {"ensureWorkspace", "connect"}) /\ m \notin Of(B, {"pair"}) /\ m \notin Of(B, {"list"})
    BY DEF Of
<1>5. /\ Opens(v.busy, {"ensureWorkspace", "connect"}, B (-) One(m))
      /\ Opens(v.pairing, {"pair"}, B (-) One(m))
    BY <1>1, <1>4, OpensTake DEF Good, FlagsOK
<1>6. Of(B (-) One(m), {"list"}) = Of(B, {"list"})
    BY <1>1, <1>4, OfTake
<1>7. FlagsOK(v, B (-) One(m))
    BY <1>5, <1>6, Zenon DEF Good, FlagsOK
<1> QED
    BY <1>2, <1>3, <1>7 DEF Good

(* A listing of the view has its answer: the view no longer loads, and may *)
(* show another directory, every reading having overlapped the listing.    *)
LEMMA ListTake ==
    ASSUME NEW v, NEW B, Good(v, B), NEW m \in BagToSet(B), m.op = "list", ~m.gone,
           NEW w \in Views, w.loading = FALSE, w.mounted = v.mounted, w.preview = v.preview,
           w.editing = v.editing, w.busy = v.busy, w.pairing = v.pairing
    PROVE  Good(w, B (-) One(m))
<1>1. IsABag(B)
    BY DEF Good, Typed
<1>2. Typed(w, B (-) One(m))
    BY <1>1, BagTake DEF Good, Typed
<1>3. m \in Of(B, {"list"}) /\ m \notin Of(B, {"ensureWorkspace", "connect"}) /\ m \notin Of(B, {"pair"})
    BY DEF Of
<1>4. Of(B, {"list"}) # {}
    BY <1>3
<1>5. TextsOK(w, B)
  <2>1. ViewOK(w, B)
      BY <1>4, Zenon DEF Good, TextsOK, ViewOK
  <2>2. \A n \in BagToSet(B) : AskOK(n, w, B)
      BY <1>4, Zenon DEF Good, TextsOK, AskOK
  <2> QED
      BY <2>1, <2>2 DEF TextsOK
<1>6. TextsOK(w, B (-) One(m))
    BY <1>1, <1>5, TextsTake
<1>7. /\ Opens(w.busy, {"ensureWorkspace", "connect"}, B (-) One(m))
      /\ Opens(w.pairing, {"pair"}, B (-) One(m))
    BY <1>1, <1>3, OpensTake DEF Good, FlagsOK
<1>8. FlagsOK(w, B (-) One(m))
    BY <1>7, Zenon DEF FlagsOK
<1> QED
    BY <1>2, <1>6, <1>8 DEF Good

(* A reading of the view has its answer: the text is shown.                *)
LEMMA ReadTake ==
    ASSUME NEW v, NEW B, Good(v, B), NEW m \in BagToSet(B), m.op = "read", ~m.gone
    PROVE  Good([v EXCEPT !.preview = TextOf(m)], B (-) One(m))
<1> DEFINE w == [v EXCEPT !.preview = TextOf(m)]
<1>1. IsABag(B) /\ m \in Requests
    BY DEF Good, Typed
<1>2. TextOf(m) \in Texts /\ TextOf(m).from = m.at /\ TextOf(m).raced = m.raced
  <2>1. m.at \in Dirs
      BY <1>1 DEF Good, TextsOK, AskOK, Requests
  <2> QED
      BY <1>1, <2>1 DEF TextOf, Texts, Requests
<1>3. /\ w \in Views
      /\ w.mounted = v.mounted /\ w.path = v.path /\ w.editing = v.editing
      /\ w.busy = v.busy /\ w.pairing = v.pairing /\ w.loading = v.loading /\ w.preview = TextOf(m)
    BY <1>2 DEF Good, Typed, Views
<1> HIDE DEF w
<1>4. AskOK(m, v, B) /\ ViewOK(v, B)
    BY DEF Good, TextsOK
<1>5. ViewOK(w, B)
    BY <1>2, <1>3, <1>4, Zenon DEF ViewOK, AskOK
<1>6. \A n \in BagToSet(B) : AskOK(n, w, B)
    BY <1>3, Zenon DEF Good, TextsOK, AskOK
<1>7. FlagsOK(w, B)
    BY <1>3, Zenon DEF Good, FlagsOK
<1>8. Good(w, B)
    BY <1>3, <1>5, <1>6, <1>7 DEF Good, TextsOK, Typed
<1>9. Good(w, B (-) One(m))
    BY <1>8, GoodTake
<1> QED
    BY <1>9 DEF w

(* The one request a view was busy with has its answer: it no longer is.   *)
LEMMA BusyTake ==
    ASSUME NEW v, NEW B, Good(v, B), NEW m \in BagToSet(B),
           m.op \in {"ensureWorkspace", "connect"}, ~m.gone
    PROVE  /\ Good([v EXCEPT !.busy = FALSE], B (-) One(m))
           /\ Of(B (-) One(m), {"ensureWorkspace", "connect"}) = {}
<1> DEFINE w == [v EXCEPT !.busy = FALSE]
<1>1. IsABag(B)
    BY DEF Good, Typed
<1>2. /\ w \in Views
      /\ w.mounted = v.mounted /\ w.path = v.path /\ w.preview = v.preview /\ w.editing = v.editing
      /\ w.busy = FALSE /\ w.pairing = v.pairing /\ w.loading = v.loading
    BY DEF Good, Typed, Views
<1> HIDE DEF w
<1>3. m \in Of(B, {"ensureWorkspace", "connect"}) /\ m \notin Of(B, {"pair"}) /\ m \notin Of(B, {"list"})
    BY DEF Of
<1>4. /\ Of(B (-) One(m), {"ensureWorkspace", "connect"}) = {}
      /\ Opens(v.pairing, {"pair"}, B (-) One(m))
    BY <1>1, <1>3, OpensTake DEF Good, FlagsOK
<1>5. Of(B (-) One(m), {"list"}) = Of(B, {"list"})
    BY <1>1, <1>3, OfTake
<1>6. Opens(w.busy, {"ensureWorkspace", "connect"}, B (-) One(m))
    BY <1>2, <1>4, Zenon DEF Opens
<1>7. FlagsOK(w, B (-) One(m))
    BY <1>2, <1>4, <1>5, <1>6, Zenon DEF Good, FlagsOK
<1>8. TextsOK(w, B)
    BY <1>2, Zenon DEF Good, TextsOK, ViewOK, AskOK
<1>9. TextsOK(w, B (-) One(m))
    BY <1>1, <1>8, TextsTake
<1>10. Typed(w, B (-) One(m))
    BY <1>1, <1>2, BagTake DEF Good, Typed
<1> QED
    BY <1>4, <1>7, <1>9, <1>10 DEF Good, w

LEMMA PairTake ==
    ASSUME NEW v, NEW B, Good(v, B), NEW m \in BagToSet(B), m.op = "pair", ~m.gone
    PROVE  Good([v EXCEPT !.pairing = FALSE], B (-) One(m))
<1> DEFINE w == [v EXCEPT !.pairing = FALSE]
<1>1. IsABag(B)
    BY DEF Good, Typed
<1>2. /\ w \in Views
      /\ w.mounted = v.mounted /\ w.path = v.path /\ w.preview = v.preview /\ w.editing = v.editing
      /\ w.busy = v.busy /\ w.pairing = FALSE /\ w.loading = v.loading
    BY DEF Good, Typed, Views
<1> HIDE DEF w
<1>3. m \in Of(B, {"pair"}) /\ m \notin Of(B, {"ensureWorkspace", "connect"}) /\ m \notin Of(B, {"list"})
    BY DEF Of
<1>4. /\ Of(B (-) One(m), {"pair"}) = {}
      /\ Opens(v.busy, {"ensureWorkspace", "connect"}, B (-) One(m))
    BY <1>1, <1>3, OpensTake DEF Good, FlagsOK
<1>5. Of(B (-) One(m), {"list"}) = Of(B, {"list"})
    BY <1>1, <1>3, OfTake
<1>6. Opens(w.pairing, {"pair"}, B (-) One(m))
    BY <1>2, <1>4, Zenon DEF Opens
<1>7. FlagsOK(w, B (-) One(m))
    BY <1>2, <1>4, <1>5, <1>6, Zenon DEF Good, FlagsOK
<1>8. TextsOK(w, B)
    BY <1>2, Zenon DEF Good, TextsOK, ViewOK, AskOK
<1>9. TextsOK(w, B (-) One(m))
    BY <1>1, <1>8, TextsTake
<1>10. Typed(w, B (-) One(m))
    BY <1>1, <1>2, BagTake DEF Good, Typed
<1> QED
    BY <1>7, <1>9, <1>10 DEF Good, w

(* A request joins that no flag and no text depends on.                    *)
LEMMA GoodAdd ==
    ASSUME NEW v, NEW B, Good(v, B), NEW m \in Requests,
           m.op \notin {"read", "write"},
           m.gone \/ (v.mounted /\ m.op \notin {"list", "ensureWorkspace", "connect", "pair"})
    PROVE  Good(v, B (+) One(m))
<1>1. IsABag(B)
    BY DEF Good, Typed
<1>2. BagToSet(B (+) One(m)) = BagToSet(B) \cup {m} /\ IsABag(B (+) One(m))
    BY <1>1, BagAdd, BagOne
<1>3. Typed(v, B (+) One(m))
    BY <1>2 DEF Good, Typed
<1>4. Of(B (+) One(m), {"list"}) = Of(B, {"list"})
    BY <1>1, OfAdd
<1>5. AskOK(m, v, B (+) One(m))
    BY DEF AskOK
<1>6. TextsOK(v, B (+) One(m))
    BY <1>2, <1>4, <1>5, TextsTo DEF Good
<1>7. /\ Opens(v.busy, {"ensureWorkspace", "connect"}, B (+) One(m))
      /\ Opens(v.pairing, {"pair"}, B (+) One(m))
    BY <1>1, OpensAdd DEF Good, FlagsOK
<1>8. FlagsOK(v, B (+) One(m))
    BY <1>4, <1>7, Zenon DEF Good, FlagsOK
<1> QED
    BY <1>3, <1>6, <1>8 DEF Good

(* A view becomes busy.                                                    *)
LEMMA BusyAdd ==
    ASSUME NEW v, NEW B, Good(v, B), Of(B, {"ensureWorkspace", "connect"}) = {}, NEW m \in Requests,
           m.op \in {"ensureWorkspace", "connect"}, ~m.gone, v.mounted
    PROVE  Good([v EXCEPT !.busy = TRUE], B (+) One(m))
<1> DEFINE w == [v EXCEPT !.busy = TRUE]
<1>1. IsABag(B)
    BY DEF Good, Typed
<1>2. /\ w \in Views
      /\ w.mounted = v.mounted /\ w.path = v.path /\ w.preview = v.preview /\ w.editing = v.editing
      /\ w.busy = TRUE /\ w.pairing = v.pairing /\ w.loading = v.loading
    BY DEF Good, Typed, Views
<1> HIDE DEF w
<1>3. BagToSet(B (+) One(m)) = BagToSet(B) \cup {m} /\ IsABag(B (+) One(m))
    BY <1>1, BagAdd, BagOne
<1>4. Of(B (+) One(m), {"list"}) = Of(B, {"list"})
    BY <1>1, OfAdd
<1>5. AskOK(m, w, B (+) One(m))
    BY <1>2 DEF AskOK
<1>6. TextsOK(w, B)
    BY <1>2, Zenon DEF Good, TextsOK, ViewOK, AskOK
<1>7. TextsOK(w, B (+) One(m))
    BY <1>3, <1>4, <1>5, <1>6, TextsTo
<1>8. /\ Opens(TRUE, {"ensureWorkspace", "connect"}, B (+) One(m))
      /\ Opens(v.pairing, {"pair"}, B (+) One(m))
    BY <1>1, OpensAdd DEF Good, FlagsOK
<1>9. FlagsOK(w, B (+) One(m))
    BY <1>2, <1>4, <1>8, Zenon DEF Good, FlagsOK
<1>10. Typed(w, B (+) One(m))
    BY <1>2, <1>3 DEF Good, Typed
<1> QED
    BY <1>7, <1>9, <1>10 DEF Good, w

LEMMA PairAdd ==
    ASSUME NEW v, NEW B, Good(v, B), ~v.pairing, NEW m \in Requests, m.op = "pair", ~m.gone, v.mounted
    PROVE  Good([v EXCEPT !.pairing = TRUE], B (+) One(m))
<1> DEFINE w == [v EXCEPT !.pairing = TRUE]
<1>1. IsABag(B)
    BY DEF Good, Typed
<1>2. /\ w \in Views
      /\ w.mounted = v.mounted /\ w.path = v.path /\ w.preview = v.preview /\ w.editing = v.editing
      /\ w.busy = v.busy /\ w.pairing = TRUE /\ w.loading = v.loading
    BY DEF Good, Typed, Views
<1> HIDE DEF w
<1>3. BagToSet(B (+) One(m)) = BagToSet(B) \cup {m} /\ IsABag(B (+) One(m))
    BY <1>1, BagAdd, BagOne
<1>4. Of(B (+) One(m), {"list"}) = Of(B, {"list"})
    BY <1>1, OfAdd
<1>5. AskOK(m, w, B (+) One(m))
    BY <1>2 DEF AskOK
<1>6. TextsOK(w, B)
    BY <1>2, Zenon DEF Good, TextsOK, ViewOK, AskOK
<1>7. TextsOK(w, B (+) One(m))
    BY <1>3, <1>4, <1>5, <1>6, TextsTo
<1>8. Of(B, {"pair"}) = {}
    BY Zenon DEF Good, FlagsOK, Opens
<1>9. /\ Opens(v.busy, {"ensureWorkspace", "connect"}, B (+) One(m))
      /\ Opens(TRUE, {"pair"}, B (+) One(m))
    BY <1>1, <1>8, OpensAdd DEF Good, FlagsOK
<1>10. FlagsOK(w, B (+) One(m))
    BY <1>2, <1>4, <1>9, Zenon DEF Good, FlagsOK
<1>11. Typed(w, B (+) One(m))
    BY <1>2, <1>3 DEF Good, Typed
<1> QED
    BY <1>7, <1>10, <1>11 DEF Good, w

(* A view loads: the text shown and the edit are dropped, and a reading in *)
(* progress is marked as raced.                                            *)
LEMMA OpensOverlap ==
    ASSUME NEW B, IsABag(B), BagToSet(B) \subseteq Requests, NEW flag, NEW ops, "read" \notin ops,
           Opens(flag, ops, B)
    PROVE  Opens(flag, ops, OverlapAll(B))
<1>1. BagToSet(OverlapAll(B)) \subseteq Requests
    BY BagOverlap
<1>2. \A n \in Requests : n.op \in ops => /\ n \in BagToSet(OverlapAll(B)) <=> n \in BagToSet(B)
                                          /\ Copies(n, OverlapAll(B)) = Copies(n, B)
    BY BagOverlap
<1>3. Of(OverlapAll(B), ops) = Of(B, ops)
    BY <1>1, <1>2, Zenon DEF Of
<1>4. \A n \in Of(B, ops) : Copies(n, OverlapAll(B)) = Copies(n, B)
    BY <1>2, Zenon DEF Of
<1> QED
    BY <1>3, <1>4, Zenon DEF Opens

LEMMA GoodLoad ==
    ASSUME NEW v, NEW B, Good(v, B), v.mounted, NEW m \in Requests, m.op = "list", ~m.gone
    PROVE  Good(Load(v), OverlapAll(B) (+) One(m))
<1> DEFINE w == Load(v)
           C == OverlapAll(B)
<1>1. IsABag(B) /\ BagToSet(B) \subseteq Requests
    BY DEF Good, Typed
<1>2. /\ w \in Views
      /\ w.mounted = v.mounted /\ w.path = v.path /\ w.preview = None /\ w.editing = None
      /\ w.busy = v.busy /\ w.pairing = v.pairing /\ w.loading = TRUE
    BY DEF Good, Typed, Views, Load
<1>3. IsABag(C) /\ BagToSet(C) = {Overlap(n) : n \in BagToSet(B)} /\ BagToSet(C) \subseteq Requests
    BY <1>1, BagOverlap
<1>4. /\ Opens(w.busy, {"ensureWorkspace", "connect"}, C)
      /\ Opens(w.pairing, {"pair"}, C)
    BY <1>1, <1>2, OpensOverlap DEF Good, FlagsOK
<1> HIDE DEF w, C
<1>5. BagToSet(C (+) One(m)) = BagToSet(C) \cup {m} /\ IsABag(C (+) One(m))
    BY <1>3, BagAdd, BagOne
<1>6. /\ Opens(w.busy, {"ensureWorkspace", "connect"}, C (+) One(m))
      /\ Opens(w.pairing, {"pair"}, C (+) One(m))
    BY <1>3, <1>4, OpensAdd
<1>7. m \in Of(C (+) One(m), {"list"})
    BY <1>5 DEF Of
<1>8. FlagsOK(w, C (+) One(m))
    BY <1>6, <1>7, Zenon DEF FlagsOK
<1>9. ASSUME NEW n \in BagToSet(B) PROVE AskOK(Overlap(n), w, C (+) One(m))
  <2>1. AskOK(n, v, B) /\ n \in Requests
      BY <1>1 DEF Good, TextsOK
  <2>2. /\ Overlap(n).op = n.op /\ Overlap(n).gone = n.gone /\ Overlap(n).at = n.at
        /\ Overlap(n).from = n.from
        /\ n.op = "read" /\ n.gone = FALSE => Overlap(n).raced = TRUE
        /\ ~(n.op = "read" /\ n.gone = FALSE) => Overlap(n).raced = n.raced
      BY <2>1, OverlapIs
  <2>3. n.gone \in BOOLEAN
      BY <2>1 DEF Requests
  <2> QED
      BY <1>2, <2>1, <2>2, <2>3, Zenon DEF AskOK
<1>10. AskOK(m, w, C (+) One(m))
    BY <1>2 DEF AskOK
<1>11. TextsOK(w, C (+) One(m))
  <2>1. ViewOK(w, C (+) One(m))
      BY <1>2 DEF ViewOK
  <2> QED
      BY <2>1, <1>3, <1>5, <1>9, <1>10 DEF TextsOK
<1>12. Typed(w, C (+) One(m))
    BY <1>2, <1>3, <1>5 DEF Typed
<1> QED
    BY <1>8, <1>11, <1>12 DEF Good, w, C

(* A view is closed.                                                       *)
LEMMA ClosedIs ==
    /\ Closed \in Views
    /\ Closed.mounted = FALSE /\ Closed.busy = FALSE /\ Closed.pairing = FALSE /\ Closed.loading = FALSE
    /\ Closed.preview = None /\ Closed.editing = None
BY DEF Closed, Mounted, Views

LEMMA GoodLeave ==
    ASSUME NEW v, NEW B, Good(v, B)
    PROVE  Good(Closed, LeaveAll(B))
<1>1. IsABag(B) /\ BagToSet(B) \subseteq Requests
    BY DEF Good, Typed
<1>2. IsABag(LeaveAll(B)) /\ BagToSet(LeaveAll(B)) = {Leave(m) : m \in BagToSet(B)}
      /\ BagToSet(LeaveAll(B)) \subseteq Requests
    BY <1>1, BagLeave
<1>3. ASSUME NEW m \in BagToSet(B) PROVE Leave(m).gone = TRUE /\ AskOK(Leave(m), Closed, LeaveAll(B))
  <2>1. m \in Requests /\ AskOK(m, v, B)
      BY <1>1 DEF Good, TextsOK
  <2>2. /\ Leave(m).gone = TRUE /\ Leave(m).op = m.op /\ Leave(m).at = m.at
        /\ Leave(m).from = m.from /\ Leave(m).raced = m.raced
      BY <2>1, LeaveIs
  <2> QED
      BY <2>1, <2>2, Zenon DEF AskOK
<1>4. \A ops : Of(LeaveAll(B), ops) = {}
    BY <1>2, <1>3, Zenon DEF Of
<1>5. FlagsOK(Closed, LeaveAll(B))
    BY <1>4, ClosedIs, Zenon DEF FlagsOK, Opens
<1>6. TextsOK(Closed, LeaveAll(B))
    BY <1>2, <1>3, ClosedIs DEF TextsOK, ViewOK
<1> QED
    BY <1>2, <1>5, <1>6, ClosedIs DEF Good, Typed

(* A view that reads a file shows nothing meanwhile.                       *)
LEMMA ReadAdd ==
    ASSUME NEW v, NEW B, Good(v, B), v.mounted, v.path # None, NEW m \in Requests, m.op = "read",
           m.at = v.path, ~m.raced => Of(B, {"list"}) = {}
    PROVE  Good([v EXCEPT !.preview = None], B (+) One(m))
<1> DEFINE w == [v EXCEPT !.preview = None]
<1>1. IsABag(B)
    BY DEF Good, Typed
<1>2. /\ w \in Views
      /\ w.mounted = v.mounted /\ w.path = v.path /\ w.preview = None /\ w.editing = v.editing
      /\ w.busy = v.busy /\ w.pairing = v.pairing /\ w.loading = v.loading
    BY DEF Good, Typed, Views
<1> HIDE DEF w
<1>3. BagToSet(B (+) One(m)) = BagToSet(B) \cup {m} /\ IsABag(B (+) One(m))
    BY <1>1, BagAdd, BagOne
<1>4. Of(B (+) One(m), {"list"}) = Of(B, {"list"})
    BY <1>1, OfAdd
<1>5. AskOK(m, w, B (+) One(m))
    BY <1>2, <1>4 DEF AskOK
<1>6. TextsOK(w, B)
    BY <1>2, Zenon DEF Good, TextsOK, ViewOK, AskOK
<1>7. TextsOK(w, B (+) One(m))
    BY <1>3, <1>4, <1>5, <1>6, TextsTo
<1>8. /\ Opens(v.busy, {"ensureWorkspace", "connect"}, B (+) One(m))
      /\ Opens(v.pairing, {"pair"}, B (+) One(m))
    BY <1>1, OpensAdd DEF Good, FlagsOK
<1>9. FlagsOK(w, B (+) One(m))
    BY <1>2, <1>4, <1>8, Zenon DEF Good, FlagsOK
<1>10. Typed(w, B (+) One(m))
    BY <1>2, <1>3 DEF Good, Typed
<1> QED
    BY <1>7, <1>9, <1>10 DEF Good, w

(* A view saves, or uploads: to where the text was read, unless it raced.  *)
LEMMA WriteAdd ==
    ASSUME NEW v, NEW B, Good(v, B), v.mounted, NEW m \in Requests, m.op = "write",
           m.raced \/ m.at = m.from
    PROVE  Good(v, B (+) One(m))
<1>1. IsABag(B)
    BY DEF Good, Typed
<1>2. BagToSet(B (+) One(m)) = BagToSet(B) \cup {m} /\ IsABag(B (+) One(m))
    BY <1>1, BagAdd, BagOne
<1>3. Of(B (+) One(m), {"list"}) = Of(B, {"list"})
    BY <1>1, OfAdd
<1>4. AskOK(m, v, B (+) One(m))
    BY DEF AskOK
<1>5. TextsOK(v, B (+) One(m))
    BY <1>2, <1>3, <1>4, TextsTo DEF Good
<1>6. /\ Opens(v.busy, {"ensureWorkspace", "connect"}, B (+) One(m))
      /\ Opens(v.pairing, {"pair"}, B (+) One(m))
    BY <1>1, OpensAdd DEF Good, FlagsOK
<1>7. FlagsOK(v, B (+) One(m))
    BY <1>3, <1>6, Zenon DEF Good, FlagsOK
<1> QED
    BY <1>2, <1>5, <1>7 DEF Good, Typed

(* A view edits the text it shows, or drops it.                            *)
LEMMA GoodEdit ==
    ASSUME NEW v, NEW B, Good(v, B), v.preview # None
    PROVE  Good([v EXCEPT !.editing = [from |-> v.preview.from, raced |-> v.preview.raced, at |-> v.path]], B)
<1> DEFINE e == [from |-> v.preview.from, raced |-> v.preview.raced, at |-> v.path]
           w == [v EXCEPT !.editing = e]
<1>1. v \in Views /\ v.preview \in Texts /\ v.path \in Dirs \cup {None}
    BY DEF Good, Typed, Views
<1>2. e \in Edits /\ e.from = v.preview.from /\ e.raced = v.preview.raced /\ e.at = v.path
    BY <1>1 DEF Texts, Edits
<1> HIDE DEF e
<1>3. /\ w \in Views
      /\ w.mounted = v.mounted /\ w.path = v.path /\ w.preview = v.preview /\ w.editing = e
      /\ w.busy = v.busy /\ w.pairing = v.pairing /\ w.loading = v.loading
    BY <1>1, <1>2 DEF Views
<1> HIDE DEF w
<1>4. TextsOK(w, B)
    BY <1>2, <1>3, Zenon DEF Good, TextsOK, ViewOK, AskOK
<1>5. FlagsOK(w, B)
    BY <1>3, Zenon DEF Good, FlagsOK
<1> QED
    BY <1>3, <1>4, <1>5 DEF Good, Typed, w, e

LEMMA GoodCancel ==
    ASSUME NEW v, NEW B, Good(v, B)
    PROVE  Good([v EXCEPT !.editing = None, !.preview = None], B)
<1> DEFINE w == [v EXCEPT !.editing = None, !.preview = None]
<1>1. /\ w \in Views
      /\ w.mounted = v.mounted /\ w.path = v.path /\ w.preview = None /\ w.editing = None
      /\ w.busy = v.busy /\ w.pairing = v.pairing /\ w.loading = v.loading
    BY DEF Good, Typed, Views
<1> HIDE DEF w
<1>2. TextsOK(w, B)
    BY <1>1, Zenon DEF Good, TextsOK, ViewOK, AskOK
<1>3. FlagsOK(w, B)
    BY <1>1, Zenon DEF Good, FlagsOK
<1> QED
    BY <1>1, <1>2, <1>3 DEF Good, Typed, w

(* A view is opened.                                                       *)
LEMMA GoodOpen ==
    ASSUME NEW v, NEW B, Good(v, B), ~v.mounted, NEW c \in Creds \cup {None}
    PROVE  Good(Mounted(c), B) /\ Mounted(c).mounted
<1>1. /\ Mounted(c) \in Views
      /\ Mounted(c).mounted = TRUE /\ Mounted(c).busy = FALSE /\ Mounted(c).pairing = FALSE
      /\ Mounted(c).loading = FALSE /\ Mounted(c).preview = None /\ Mounted(c).editing = None
    BY DEF Mounted, Views
<1>2. \A m \in BagToSet(B) : AskOK(m, v, B) /\ m.gone
    BY Zenon DEF Good, TextsOK, AskOK
<1>3. \A ops : Of(B, ops) = {}
    BY <1>2, Zenon DEF Of
<1>4. TextsOK(Mounted(c), B)
    BY <1>1, <1>2, Zenon DEF TextsOK, ViewOK, AskOK
<1>5. FlagsOK(Mounted(c), B)
    BY <1>1, <1>3, Zenon DEF FlagsOK, Opens
<1> QED
    BY <1>1, <1>4, <1>5 DEF Good, Typed

(* The credentials the requests of a bag carry.                            *)
CredsIn(bag, K) == \A m \in BagToSet(bag) : m.cred \in K

LEMMA CredsAre ==
    ASSUME NEW B, IsABag(B), BagToSet(B) \subseteq Requests, NEW K, CredsIn(B, K)
    PROVE  /\ \A m : m.cred \in K => CredsIn(B (+) One(m), K)
           /\ \A m \in BagToSet(B) : CredsIn(B (-) One(m), K)
           /\ CredsIn(OverlapAll(B), K)
           /\ CredsIn(LeaveAll(B), K)
<1>1. ASSUME NEW m, m.cred \in K PROVE CredsIn(B (+) One(m), K)
  <2>1. BagToSet(B (+) One(m)) = BagToSet(B) \cup {m}
      BY BagAdd, BagOne
  <2> QED
      BY <1>1, <2>1 DEF CredsIn
<1>2. \A m \in BagToSet(B) : CredsIn(B (-) One(m), K)
    BY BagTake DEF CredsIn
<1>3. CredsIn(OverlapAll(B), K)
  <2>1. \A m \in BagToSet(B) : Overlap(m).cred = m.cred
      BY OverlapIs
  <2>2. BagToSet(OverlapAll(B)) = {Overlap(m) : m \in BagToSet(B)}
      BY BagOverlap
  <2> QED
      BY <2>1, <2>2, Zenon DEF CredsIn
<1>4. CredsIn(LeaveAll(B), K)
  <2>1. \A m \in BagToSet(B) : Leave(m).cred = m.cred
      BY LeaveIs
  <2>2. BagToSet(LeaveAll(B)) = {Leave(m) : m \in BagToSet(B)}
      BY BagLeave
  <2> QED
      BY <2>1, <2>2, Zenon DEF CredsIn
<1> QED
    BY <1>1, <1>2, <1>3, <1>4

LEMMA AddTwo ==
    ASSUME NEW B, IsABag(B), NEW a, NEW b
    PROVE  B (+) (One(a) (+) One(b)) = (B (+) One(a)) (+) One(b)
BY DEF IsABag, One, SetToBag, (+)

(* What a request is that was just asked.                                  *)
Asks(r, op, at, cred, gone) ==
    r \in Requests /\ r.op = op /\ r.at = at /\ r.cred = cred /\ r.gone = gone

LEMMA AsksRecord ==
    ASSUME NEW op \in Ops, NEW at \in Dirs \cup {None}, NEW cred \in Creds \cup {None},
           NEW gone \in BOOLEAN, NEW inForce \in BOOLEAN
    PROVE  Asks([op |-> op, at |-> at, cred |-> cred, inForce |-> inForce, gone |-> gone,
                 back |-> None, from |-> None, raced |-> FALSE], op, at, cred, gone)
BY DEF Asks, Requests

LEMMA AskIs ==
    ASSUME NEW op \in Ops, NEW at \in Dirs \cup {None}, NEW cred \in Creds \cup {None},
           NEW gone \in BOOLEAN
    PROVE  Asks(Ask(op, at, cred, gone), op, at, cred, gone)
<1> DEFINE inForce == cred \in valid
<1>1. inForce \in BOOLEAN
    OBVIOUS
<1>2. Ask(op, at, cred, gone) =
          [op |-> op, at |-> at, cred |-> cred, inForce |-> inForce, gone |-> gone,
           back |-> None, from |-> None, raced |-> FALSE]
    BY DEF Ask
<1> HIDE DEF inForce
<1> QED
    BY <1>1, <1>2, AsksRecord

-----------------------------------------------------------------------------
(***************************************************************************)
(* The inductive invariant, and the steps that keep it.                    *)
(***************************************************************************)
HostOK ==
    /\ issued \in 0..MaxIssued /\ valid \subseteq 1..issued /\ events \in 0..MaxEvents
    /\ store \in 1..issued \cup {None}
    /\ refused \subseteq 1..issued /\ store \notin refused

IInv == HostOK /\ Good(view, asked) /\ CredsIn(asked, 1..issued \cup {None})

Kept == Good(view', asked') /\ CredsIn(asked', 1..issued \cup {None})

LEMMA KnownAre ==
    ASSUME HostOK
    PROVE  1..issued \cup {None} \subseteq Creds \cup {None}
BY DEF HostOK, Creds

(* refresh asks twice.                                                     *)
LEMMA RefreshAdds ==
    ASSUME NEW v, NEW B, Good(v, B), NEW K, CredsIn(B, K), NEW c \in K, NEW gone \in BOOLEAN,
           gone \/ v.mounted, NEW a, NEW l,
           Asks(a, "allowed", None, c, gone), Asks(l, "lists", None, c, gone)
    PROVE  Good(v, B (+) (One(a) (+) One(l))) /\ CredsIn(B (+) (One(a) (+) One(l)), K)
<1>1. Good(v, B (+) One(a))
    BY GoodAdd DEF Asks
<1>2. Good(v, (B (+) One(a)) (+) One(l))
    BY <1>1, GoodAdd DEF Asks
<1>3. CredsIn(B (+) One(a), K)
    BY CredsAre DEF Asks, Good, Typed
<1>4. CredsIn((B (+) One(a)) (+) One(l), K)
    BY <1>1, <1>3, CredsAre DEF Asks, Good, Typed
<1>5. (B (+) One(a)) (+) One(l) = B (+) (One(a) (+) One(l))
    BY AddTwo DEF Good, Typed
<1> QED
    BY <1>2, <1>4, <1>5

LEMMA OpenKeeps ==
    ASSUME IInv, Open
    PROVE  Kept
<1> DEFINE a == Ask("allowed", None, store, FALSE)
           l == Ask("lists", None, store, FALSE)
<1>1. store \in 1..issued \cup {None} /\ store \in Creds \cup {None}
    BY KnownAre DEF IInv, HostOK
<1>2. Asks(a, "allowed", None, store, FALSE) /\ Asks(l, "lists", None, store, FALSE)
    BY <1>1, AskIs DEF Ops
<1>3. asked' = asked (+) (One(a) (+) One(l)) /\ view' = Mounted(store) /\ ~view.mounted
    BY DEF Open, RefreshAsks
<1> HIDE DEF a, l
<1>4. Good(view', asked) /\ view'.mounted
    BY <1>1, <1>3, GoodOpen DEF IInv
<1> QED
    BY <1>1, <1>2, <1>3, <1>4, RefreshAdds DEF IInv, Kept

LEMMA CloseKeeps ==
    ASSUME IInv, Close
    PROVE  Kept
<1>1. view' = Closed /\ asked' = LeaveAll(asked)
    BY DEF Close
<1> QED
    BY <1>1, GoodLeave, CredsAre DEF IInv, Kept, Good, Typed

LEMMA GoKeeps ==
    ASSUME IInv, NEW d \in Dirs, Go(d)
    PROVE  Kept
<1> DEFINE r == Ask("list", d, store, FALSE)
<1>1. store \in 1..issued \cup {None} /\ store \in Creds \cup {None}
    BY KnownAre DEF IInv, HostOK
<1>2. Asks(r, "list", d, store, FALSE)
    BY <1>1, AskIs DEF Ops
<1>3. view.mounted /\ view' = Load(view) /\ asked' = OverlapAll(asked) (+) One(r)
    BY DEF Go, LoadAsks
<1> HIDE DEF r
<1>4. Good(view', asked')
    BY <1>2, <1>3, GoodLoad DEF IInv, Asks
<1>5. CredsIn(OverlapAll(asked), 1..issued \cup {None}) /\ IsABag(OverlapAll(asked))
      /\ BagToSet(OverlapAll(asked)) \subseteq Requests
    BY CredsAre, BagOverlap DEF IInv, Good, Typed
<1>6. CredsIn(asked', 1..issued \cup {None})
    BY <1>1, <1>2, <1>3, <1>5, CredsAre DEF Asks
<1> QED
    BY <1>4, <1>6 DEF Kept

(* A click adds one request; what it has to show is that its view is good. *)
LEMMA ClickKeeps ==
    ASSUME IInv, NEW m \in Requests, m.cred = store, NEW v, Click(m, v),
           view.mounted => Good(v, asked (+) One(m))
    PROVE  Kept
<1>1. view.mounted /\ asked' = asked (+) One(m) /\ view' = v
    BY DEF Click
<1>2. CredsIn(asked (+) One(m), 1..issued \cup {None})
    BY CredsAre DEF IInv, HostOK, Good, Typed
<1> QED
    BY <1>1, <1>2 DEF Kept

LEMMA PairingKeeps ==
    ASSUME IInv, doPair
    PROVE  Kept
<1> DEFINE r == Ask("pair", None, store, FALSE)
           v == [view EXCEPT !.pairing = TRUE]
<1>1. Asks(r, "pair", None, store, FALSE)
    BY KnownAre, AskIs DEF IInv, HostOK, Ops
<1>2. ~view.pairing /\ Click(r, v)
    BY DEF doPair
<1> HIDE DEF r
<1>3. view.mounted => Good(v, asked (+) One(r))
    BY <1>1, <1>2, PairAdd DEF IInv, Asks
<1> HIDE DEF v
<1> QED
    BY <1>1, <1>2, <1>3, ClickKeeps DEF Asks

LEMMA OpeningKeeps ==
    ASSUME IInv, openFile
    PROVE  Kept
<1> DEFINE q == Ask("read", view.path, store, FALSE)
           r == [q EXCEPT !.raced = Listing]
           v == [view EXCEPT !.preview = None]
<1>1. view.path \in Dirs /\ view.path # None
    BY DEF openFile, IInv, Good, Typed, Views
<1>2. Asks(q, "read", view.path, store, FALSE)
    BY <1>1, KnownAre, AskIs DEF IInv, HostOK, Ops
<1>3. Click(r, v)
    BY DEF openFile
<1> HIDE DEF q
<1>4. Listing \in BOOLEAN
    BY DEF Listing
<1>5. /\ r \in Requests /\ r.op = q.op /\ r.at = q.at /\ r.cred = q.cred /\ r.gone = q.gone
      /\ r.raced = Listing
  <2> HIDE DEF Listing
  <2> QED
      BY <1>2, <1>4 DEF Asks, Requests
<1>6. ~Listing => Of(asked, {"list"}) = {}
    BY Zenon DEF Listing, Of
<1> HIDE DEF r
<1>7. ~r.raced => Of(asked, {"list"}) = {}
    BY <1>5, <1>6, Zenon
<1>8. view.mounted => Good(v, asked (+) One(r))
    BY <1>1, <1>2, <1>5, <1>7, ReadAdd DEF IInv, Asks
<1> HIDE DEF v
<1> QED
    BY <1>2, <1>3, <1>5, <1>8, ClickKeeps DEF Asks

LEMMA SavingKeeps ==
    ASSUME IInv, saveEdit \/ upload
    PROVE  Kept
<1>1. view \in Views
    BY DEF IInv, Good, Typed
<1>2. CASE saveEdit
  <2> DEFINE q == Ask("write", view.editing.at, store, FALSE)
             r == [q EXCEPT !.back = view.path, !.from = view.editing.from, !.raced = view.editing.raced]
  <2>1. view.editing \in Edits /\ view.editing # None
      BY <1>1, <1>2 DEF saveEdit, Views
  <2>2. /\ view.editing.at \in Dirs \cup {None} /\ view.editing.from \in Dirs \cup {None}
        /\ view.editing.raced \in BOOLEAN
      BY <2>1 DEF Edits
  <2>3. Asks(q, "write", view.editing.at, store, FALSE)
      BY <2>2, KnownAre, AskIs DEF IInv, HostOK, Ops
  <2>4. Click(r, view)
      BY <1>2 DEF saveEdit
  <2> HIDE DEF q
  <2>5. Asks(r, "write", view.editing.at, store, FALSE)
        /\ r.from = view.editing.from /\ r.raced = view.editing.raced
    <3>1. view.path \in Dirs \cup {None}
        BY <1>1 DEF Views
    <3>2. PICK back \in Dirs \cup {None}, from \in Dirs \cup {None}, raced \in BOOLEAN :
              back = view.path /\ from = view.editing.from /\ raced = view.editing.raced
        BY <2>2, <3>1
    <3>3. r = [q EXCEPT !.back = back, !.from = from, !.raced = raced]
        BY <3>2
    <3> HIDE DEF r
    <3>4. q \in Requests
        BY <2>3 DEF Asks
    <3>5. Asks(r, q.op, q.at, q.cred, q.gone) /\ r.from = from /\ r.raced = raced
        BY <3>2, <3>3, <3>4 DEF Asks, Requests
    <3> QED
        BY <2>3, <3>2, <3>5 DEF Asks
  <2> HIDE DEF r
  <2>6. r.raced \/ r.at = r.from
    <3>1. ViewOK(view, asked)
        BY DEF IInv, Good, TextsOK
    <3> QED
        BY <2>1, <2>5, <3>1, Zenon DEF ViewOK, Asks
  <2>7. view.mounted => Good(view, asked (+) One(r))
      BY <2>5, <2>6, WriteAdd DEF IInv, Asks
  <2> QED
      BY <2>4, <2>5, <2>7, ClickKeeps DEF Asks
<1>3. CASE upload
  <2> DEFINE q == Ask("write", view.path, store, FALSE)
             r == [q EXCEPT !.back = view.path, !.from = view.path]
  <2>1. view.path \in Dirs
      BY <1>1, <1>3 DEF upload, Views
  <2>2. Asks(q, "write", view.path, store, FALSE)
      BY <2>1, KnownAre, AskIs DEF IInv, HostOK, Ops
  <2>3. Click(r, view)
      BY <1>3 DEF upload
  <2> HIDE DEF q
  <2>4. Asks(r, "write", view.path, store, FALSE) /\ r.from = view.path
      BY <2>1, <2>2 DEF Asks, Requests
  <2> HIDE DEF r
  <2>5. view.mounted => Good(view, asked (+) One(r))
      BY <2>4, WriteAdd DEF IInv, Asks
  <2> QED
      BY <2>3, <2>4, <2>5, ClickKeeps DEF Asks
<1> QED
    BY <1>2, <1>3

LEMMA WorkingKeeps ==
    ASSUME IInv, startSessionHere \/ openWorkspace
    PROVE  Kept
<1> DEFINE v == [view EXCEPT !.busy = TRUE]
<1>1. PICK op \in {"ensureWorkspace", "connect"}, at \in Dirs \cup {None} :
          ~view.busy /\ Click(Ask(op, at, store, FALSE), v)
  <2>1. view.path \in Dirs \cup {None}
      BY DEF IInv, Good, Typed, Views
  <2>2. CASE startSessionHere
    <3>1. ~view.busy /\ Click(Ask("ensureWorkspace", view.path, store, FALSE), v)
        BY <2>2 DEF startSessionHere
    <3> QED
        BY <2>1, <3>1
  <2>3. CASE openWorkspace
    <3>1. ~view.busy /\ Click(Ask("connect", None, store, FALSE), v)
        BY <2>3 DEF openWorkspace
    <3> QED
        BY <3>1
  <2> QED
      BY <2>2, <2>3
<1> DEFINE r == Ask(op, at, store, FALSE)
<1>2. Asks(r, op, at, store, FALSE)
    BY KnownAre, AskIs DEF IInv, HostOK, Ops
<1>3. ~view.busy /\ Click(r, v)
    BY <1>1
<1> HIDE DEF r
<1>4. Of(asked, {"ensureWorkspace", "connect"}) = {}
    BY <1>3, Zenon DEF IInv, Good, FlagsOK, Opens
<1>5. view.mounted => Good(v, asked (+) One(r))
    BY <1>2, <1>4, BusyAdd DEF IInv, Asks
<1> HIDE DEF v
<1> QED
    BY <1>2, <1>3, <1>5, ClickKeeps DEF Asks

LEMMA ManageKeeps ==
    ASSUME IInv, Manage
    PROVE  Kept
<1>1. PICK op \in {"setAllowed", "lists", "revoke"} : Click(Ask(op, None, store, FALSE), view)
    BY DEF Manage
<1> DEFINE r == Ask(op, None, store, FALSE)
<1>2. Asks(r, op, None, store, FALSE)
    BY KnownAre, AskIs DEF IInv, HostOK, Ops
<1>3. Click(r, view)
    BY <1>1
<1> HIDE DEF r
<1>4. view.mounted => Good(view, asked (+) One(r))
    BY <1>2, GoodAdd DEF IInv, Asks
<1> QED
    BY <1>2, <1>3, <1>4, ClickKeeps DEF Asks

LEMMA UserKeeps ==
    ASSUME IInv, User
    PROVE  IInv'
<1>1. Kept
  <2>1. CASE Edit
    <3>1. asked' = asked /\ view.preview # None
          /\ view' = [view EXCEPT !.editing = [from |-> view.preview.from, raced |-> view.preview.raced,
                                               at |-> view.path]]
        BY <2>1 DEF Edit
    <3> QED
        BY <3>1, GoodEdit DEF IInv, Kept
  <2>2. CASE Cancel
      BY <2>2, GoodCancel DEF Cancel, IInv, Kept
  <2> QED
      BY <2>1, <2>2, OpenKeeps, CloseKeeps, GoKeeps, PairingKeeps, OpeningKeeps, SavingKeeps,
         WorkingKeeps, ManageKeeps DEF User
<1>2. UNCHANGED <<store, valid, issued, refused>> /\ (events' = events \/ Event)
    BY DEF User, Open, Close, doPair, Go, openFile, Edit, Cancel, saveEdit, upload, startSessionHere,
           openWorkspace, Manage, Click, hostVars
<1>3. HostOK'
    BY <1>2 DEF IInv, HostOK, Event
<1> QED
    BY <1>1, <1>2, <1>3 DEF IInv, Kept

-----------------------------------------------------------------------------
(* An answer takes its request from the bag; what its callback has to show *)
(* is that the view it sets, if there is one, is good.                     *)
LEMMA TakeKeeps ==
    ASSUME IInv, NEW m \in BagToSet(asked), NEW v, ~m.gone => Good(v, Rest(m))
    PROVE  Good(Shown(m, v), Rest(m)) /\ CredsIn(Rest(m), 1..issued \cup {None})
<1>1. CredsIn(Rest(m), 1..issued \cup {None})
    BY CredsAre DEF IInv, Good, Typed, Rest
<1>2. CASE m.gone
    BY <1>1, <1>2, GoodTake DEF IInv, Rest, Shown
<1>3. CASE ~m.gone
    BY <1>1, <1>3 DEF Shown
<1> QED
    BY <1>2, <1>3

LEMMA DoneKeeps ==
    ASSUME IInv, NEW m \in BagToSet(asked), NEW v, ~m.gone => Good(v, Rest(m)), Done(m, v)
    PROVE  IInv'
<1>1. view' = Shown(m, v) /\ asked' = Rest(m) /\ UNCHANGED <<store, valid, issued, refused, events>>
    BY DEF Done, Settled, Keep, hostVars
<1>2. HostOK'
    BY <1>1 DEF IInv, HostOK
<1>3. Kept
    BY <1>1, TakeKeeps DEF Kept
<1> QED
    BY <1>1, <1>2, <1>3 DEF IInv, Kept

LEMMA LockedKeeps ==
    ASSUME IInv, NEW m \in BagToSet(asked), NEW v, ~m.gone => Good(v, Rest(m)), Locked(m, v)
    PROVE  IInv'
<1> DEFINE w == [v EXCEPT !.cred = None]
<1>1. /\ view' = Shown(m, w) /\ asked' = Rest(m) /\ UNCHANGED <<valid, issued, events>>
      /\ store' = None /\ refused' = refused \cup ({m.cred} \ {None})
    BY DEF Locked, Settled, hostVars
<1>2. ~m.gone => Good(w, Rest(m))
    BY GoodCred
<1> HIDE DEF w
<1>3. m.cred \in 1..issued \cup {None}
    BY DEF IInv, CredsIn
<1>4. HostOK'
  <2>1. None \notin 1..issued
      BY DEF IInv, HostOK
  <2>2. refused \subseteq 1..issued
      BY DEF IInv, HostOK
  <2>3. refused' \subseteq 1..issued /\ None \notin refused'
      BY <1>1, <1>3, <2>1, <2>2, Zenon
  <2> QED
      BY <1>1, <2>3 DEF IInv, HostOK
<1>5. Kept
    BY <1>1, <1>2, TakeKeeps DEF Kept
<1> QED
    BY <1>1, <1>4, <1>5 DEF IInv, Kept

LEMMA ReloadKeeps ==
    ASSUME IInv, NEW m \in BagToSet(asked), NEW at \in Dirs \cup {None},
           m.op \in {"write", "allowed"}, Reload(m, at)
    PROVE  IInv'
<1> DEFINE r == Ask("list", at, store, m.gone)
<1>1. /\ view' = Shown(m, Load(view)) /\ UNCHANGED <<store, valid, issued, refused, events>>
      /\ asked' = LoadAsks(Rest(m), at, store, m.gone)
    BY DEF Reload, Settled, Keep, hostVars
<1>2. m \in Requests /\ m.gone \in BOOLEAN /\ AskOK(m, view, asked)
    BY DEF IInv, Good, Typed, TextsOK, Requests
<1>3. store \in 1..issued \cup {None} /\ Asks(r, "list", at, store, m.gone)
    BY <1>2, KnownAre, AskIs DEF IInv, HostOK, Ops
<1>4. Good(view, Rest(m)) /\ CredsIn(Rest(m), 1..issued \cup {None})
    BY GoodTake, CredsAre DEF IInv, Good, Typed, Rest
<1>5. HostOK'
    BY <1>1 DEF IInv, HostOK
<1>6. CASE m.gone = TRUE
  <2>1. view' = view /\ asked' = Rest(m) (+) One(r)
      BY <1>1, <1>6 DEF Shown, LoadAsks
  <2> HIDE DEF r
  <2>2. Good(view', asked')
      BY <1>3, <1>4, <1>6, <2>1, GoodAdd DEF Asks
  <2>3. CredsIn(asked', 1..issued \cup {None})
      BY <1>3, <1>4, <2>1, CredsAre DEF Asks, Good, Typed
  <2> QED
      BY <1>1, <1>5, <2>2, <2>3 DEF IInv
<1>7. CASE m.gone = FALSE
  <2>1. view' = Load(view) /\ asked' = OverlapAll(Rest(m)) (+) One(r)
      BY <1>1, <1>7 DEF Shown, LoadAsks
  <2>2. view.mounted
      BY <1>2, <1>7 DEF AskOK
  <2> HIDE DEF r
  <2>3. Good(view', asked')
      BY <1>3, <1>4, <1>7, <2>1, <2>2, GoodLoad DEF Asks
  <2>4. CredsIn(OverlapAll(Rest(m)), 1..issued \cup {None}) /\ IsABag(OverlapAll(Rest(m)))
        /\ BagToSet(OverlapAll(Rest(m))) \subseteq Requests
      BY <1>4, CredsAre, BagOverlap DEF Good, Typed
  <2>5. CredsIn(asked', 1..issued \cup {None})
      BY <1>3, <2>1, <2>4, CredsAre DEF Asks
  <2> QED
      BY <1>1, <1>5, <2>3, <2>5 DEF IInv
<1> QED
    BY <1>2, <1>6, <1>7

LEMMA ListAnswerKeeps ==
    ASSUME IInv, NEW m \in BagToSet(asked), m.op = "list", NEW answer, ListAnswered(m, answer)
    PROVE  IInv'
<1> DEFINE v == [view EXCEPT !.loading = Loaded(answer)]
           w == [v EXCEPT !.path = m.at]
<1>1. view \in Views /\ m.at \in Dirs \cup {None}
    BY DEF IInv, Good, Typed, Requests
<1>2. /\ v \in Views /\ v.loading = FALSE /\ v.mounted = view.mounted /\ v.preview = view.preview
      /\ v.editing = view.editing /\ v.busy = view.busy /\ v.pairing = view.pairing
    BY <1>1 DEF Views, Loaded
<1>3. /\ w \in Views /\ w.loading = FALSE /\ w.mounted = view.mounted /\ w.preview = view.preview
      /\ w.editing = view.editing /\ w.busy = view.busy /\ w.pairing = view.pairing
    BY <1>1 DEF Views, Loaded
<1>4. Locked(m, v) \/ Done(m, w) \/ Done(m, v)
    BY DEF ListAnswered
<1> HIDE DEF v, w
<1>5. ~m.gone => Good(v, Rest(m))
    BY <1>2, ListTake DEF IInv, Rest
<1>6. ~m.gone => Good(w, Rest(m))
    BY <1>3, ListTake DEF IInv, Rest
<1> QED
    BY <1>4, <1>5, <1>6, LockedKeeps, DoneKeeps

LEMMA ReadAnswerKeeps ==
    ASSUME IInv, NEW m \in BagToSet(asked), m.op = "read", NEW answer, ReadAnswered(m, answer)
    PROVE  IInv'
<1> DEFINE w == [view EXCEPT !.preview = TextOf(m)]
<1>1. Locked(m, view) \/ Done(m, w) \/ Done(m, view)
    BY DEF ReadAnswered
<1>2. ~m.gone => Good(w, Rest(m))
    BY ReadTake DEF IInv, Rest
<1>3. Good(view, Rest(m))
    BY GoodTake DEF IInv, Rest
<1> HIDE DEF w
<1> QED
    BY <1>1, <1>2, <1>3, LockedKeeps, DoneKeeps

(* write, allowed and lists.                                               *)
LEMMA PlainAnswerKeeps ==
    ASSUME IInv, NEW m \in BagToSet(asked), NEW answer,
           \/ m.op = "write" /\ WriteAnswered(m, answer)
           \/ m.op = "allowed" /\ AllowedAnswered(m, answer)
           \/ m.op = "lists" /\ ListsAnswered(m, answer)
    PROVE  IInv'
<1>1. Good(view, Rest(m))
    BY GoodTake DEF IInv, Rest
<1>2. m.back \in Dirs \cup {None} /\ Home \in Dirs \cup {None}
    BY DEF IInv, Good, Typed, Requests
<1>3. \/ Locked(m, view) \/ Done(m, view)
      \/ m.op = "write" /\ Reload(m, m.back)
      \/ m.op = "allowed" /\ Reload(m, Home)
    BY DEF WriteAnswered, AllowedAnswered, ListsAnswered
<1> QED
    BY <1>1, <1>2, <1>3, LockedKeeps, DoneKeeps, ReloadKeeps

LEMMA EnsureAnswerKeeps ==
    ASSUME IInv, NEW m \in BagToSet(asked), m.op = "ensureWorkspace", NEW answer,
           EnsureAnswered(m, answer)
    PROVE  IInv'
<1> DEFINE v == [view EXCEPT !.busy = FALSE]
           r == Ask("connect", None, store, m.gone)
<1>1. Locked(m, v) \/ Done(m, v) \/ (Settled(m, view, Rest(m) (+) One(r)) /\ Keep)
    BY DEF EnsureAnswered
<1>2. m \in Requests /\ m.gone \in BOOLEAN /\ AskOK(m, view, asked) /\ view \in Views
    BY DEF IInv, Good, Typed, TextsOK, Requests
<1>3. ~m.gone => /\ Good(v, Rest(m)) /\ Of(Rest(m), {"ensureWorkspace", "connect"}) = {}
                 /\ view.busy /\ view.mounted
  <2>1. ~m.gone => Good(v, Rest(m)) /\ Of(Rest(m), {"ensureWorkspace", "connect"}) = {}
      BY BusyTake DEF IInv, Rest
  <2>2. ~m.gone => m \in Of(asked, {"ensureWorkspace", "connect"})
      BY DEF Of
  <2>3. Of(asked, {"ensureWorkspace", "connect"}) # {} => view.busy
      BY Zenon DEF IInv, Good, FlagsOK, Opens
  <2>4. ~m.gone => view.mounted
      BY <1>2, Zenon DEF AskOK
  <2> QED
      BY <2>1, <2>2, <2>3, <2>4
<1>4. store \in 1..issued \cup {None} /\ Asks(r, "connect", None, store, m.gone)
    BY <1>2, KnownAre, AskIs DEF IInv, HostOK, Ops
<1>5. ASSUME Settled(m, view, Rest(m) (+) One(r)), Keep PROVE IInv'
  <2>1. view' = view /\ asked' = Rest(m) (+) One(r) /\ UNCHANGED <<store, valid, issued, refused, events>>
      BY <1>5 DEF Settled, Shown, Keep, hostVars
  <2> HIDE DEF r
  <2>2. ASSUME m.gone = TRUE PROVE Good(view, Rest(m) (+) One(r))
    <3>1. Good(view, Rest(m))
        BY <2>2, GoodTake DEF IInv, Rest
    <3> QED
        BY <1>4, <2>2, <3>1, GoodAdd DEF Asks
  <2>3. ~m.gone => Good(view, Rest(m) (+) One(r))
    <3> SUFFICES ASSUME ~m.gone PROVE Good(view, Rest(m) (+) One(r))
        OBVIOUS
    <3>1. v.mounted = view.mounted /\ [v EXCEPT !.busy = TRUE] = view
        BY <1>2, <1>3 DEF Views
    <3> HIDE DEF v
    <3>2. Good([v EXCEPT !.busy = TRUE], Rest(m) (+) One(r))
        BY <1>3, <1>4, <3>1, BusyAdd DEF Asks
    <3> QED
        BY <3>1, <3>2
  <2>4. Good(view, Rest(m) (+) One(r))
      BY <1>2, <2>2, <2>3
  <2>5. CredsIn(Rest(m), 1..issued \cup {None}) /\ IsABag(Rest(m)) /\ BagToSet(Rest(m)) \subseteq Requests
      BY CredsAre, BagTake DEF IInv, Good, Typed, Rest
  <2>6. CredsIn(Rest(m) (+) One(r), 1..issued \cup {None})
      BY <1>4, <2>5, CredsAre DEF Asks
  <2>7. HostOK'
      BY <2>1 DEF IInv, HostOK
  <2> QED
      BY <2>1, <2>4, <2>6, <2>7 DEF IInv
<1> HIDE DEF v
<1> QED
    BY <1>1, <1>3, <1>5, LockedKeeps, DoneKeeps

LEMMA ConnectAnswerKeeps ==
    ASSUME IInv, NEW m \in BagToSet(asked), m.op = "connect", NEW answer, ConnectAnswered(m, answer)
    PROVE  IInv'
<1> DEFINE v == [view EXCEPT !.busy = FALSE]
<1>1. ~m.gone => Good(v, Rest(m))
    BY BusyTake DEF IInv, Rest
<1>2. CASE Done(m, v)
  <2> HIDE DEF v
  <2> QED
      BY <1>1, <1>2, DoneKeeps
<1>3. CASE ~m.gone /\ view' = Closed /\ asked' = LeaveAll(Rest(m)) /\ Keep
  <2>1. Good(view', asked')
      BY <1>1, <1>3, GoodLeave
  <2>2. CredsIn(Rest(m), 1..issued \cup {None}) /\ IsABag(Rest(m)) /\ BagToSet(Rest(m)) \subseteq Requests
      BY CredsAre, BagTake DEF IInv, Good, Typed, Rest
  <2>3. CredsIn(asked', 1..issued \cup {None})
      BY <1>3, <2>2, CredsAre
  <2>4. UNCHANGED <<store, valid, issued, refused, events>>
      BY <1>3 DEF Keep, hostVars
  <2>5. HostOK'
      BY <2>4 DEF IInv, HostOK
  <2> QED
      BY <2>1, <2>3, <2>4, <2>5 DEF IInv
<1> QED
    BY <1>2, <1>3 DEF ConnectAnswered

LEMMA PairAnswerKeeps ==
    ASSUME IInv, NEW m \in BagToSet(asked), m.op = "pair", NEW answer, PairAnswered(m, answer)
    PROVE  IInv'
<1> DEFINE v == [view EXCEPT !.pairing = FALSE]
           w == [v EXCEPT !.cred = issued + 1]
<1>1. m \in Requests /\ m.gone \in BOOLEAN /\ AskOK(m, view, asked)
    BY DEF IInv, Good, Typed, TextsOK, Requests
<1>2. ~m.gone => Good(v, Rest(m)) /\ v.mounted
  <2>1. ~m.gone => view.mounted
      BY <1>1, Zenon DEF AskOK
  <2>2. v.mounted = view.mounted
      BY DEF IInv, Good, Typed, Views
  <2> HIDE DEF v
  <2>3. ~m.gone => Good([view EXCEPT !.pairing = FALSE], Rest(m))
      BY PairTake DEF IInv, Rest
  <2> QED
      BY <2>1, <2>2, <2>3 DEF v
<1>3. CASE answer = "ok"
  <2> DEFINE inForce == (issued + 1) \in valid'
             a == [op |-> "allowed", at |-> None, cred |-> issued + 1, inForce |-> inForce,
                   gone |-> m.gone, back |-> None, from |-> None, raced |-> FALSE]
             l == [op |-> "lists", at |-> None, cred |-> issued + 1, inForce |-> inForce,
                   gone |-> m.gone, back |-> None, from |-> None, raced |-> FALSE]
             K == 1..(issued + 1) \cup {None}
  <2>1. /\ issued < MaxIssued /\ store' = issued + 1 /\ issued' = issued + 1
        /\ valid' \in {valid, valid \cup {issued + 1}} /\ UNCHANGED <<refused, events>>
        /\ view' = Shown(m, w)
        /\ asked' = Rest(m) (+) (One(a) (+) One(l))
      BY <1>3 DEF PairAnswered, Settled, RefreshAsks, Ask
  <2>2. issued + 1 \in Creds /\ issued + 1 \in K
      BY <2>1 DEF IInv, HostOK, Creds
  <2>3. inForce \in BOOLEAN
      OBVIOUS
  <2> HIDE DEF inForce
  <2>4. Asks(a, "allowed", None, issued + 1, m.gone) /\ Asks(l, "lists", None, issued + 1, m.gone)
      BY <1>1, <2>2, <2>3, AsksRecord DEF Ops
  <2> HIDE DEF a, l
  <2>5. HostOK'
      BY <2>1 DEF IInv, HostOK
  <2>6. CredsIn(Rest(m), 1..issued \cup {None})
      BY CredsAre DEF IInv, Good, Typed, Rest
  <2>7. 1..issued \cup {None} \subseteq K
      BY DEF IInv, HostOK
  <2>8. CredsIn(Rest(m), K)
    <3> HIDE DEF K
    <3> QED
        BY <2>6, <2>7 DEF CredsIn
  <2>9. Good(view', Rest(m)) /\ (m.gone \/ view'.mounted)
    <3>1. ASSUME m.gone PROVE Good(view', Rest(m))
        BY <2>1, <3>1, GoodTake DEF IInv, Rest, Shown
    <3>2. ASSUME ~m.gone PROVE Good(view', Rest(m)) /\ view'.mounted
      <4>1. view' = w
          BY <2>1, <3>2 DEF Shown
      <4>2. w.mounted = v.mounted
        <5>1. v \in Views
            BY <1>2, <3>2 DEF Good, Typed
        <5> HIDE DEF v
        <5> QED
            BY <5>1 DEF Views
      <4> HIDE DEF v
      <4>3. Good(w, Rest(m))
          BY <1>2, <2>2, <3>2, GoodCred
      <4> QED
          BY <1>2, <3>2, <4>1, <4>2, <4>3
    <3> QED
        BY <3>1, <3>2
  <2> HIDE DEF K
  <2>10. Good(view', asked') /\ CredsIn(asked', K)
      BY <1>1, <2>1, <2>2, <2>4, <2>8, <2>9, RefreshAdds
  <2> QED
      BY <2>1, <2>5, <2>10 DEF IInv, K
<1>4. CASE answer # "ok"
  <2>1. Done(m, v)
      BY <1>4 DEF PairAnswered
  <2> HIDE DEF v
  <2> QED
      BY <1>2, <2>1, DoneKeeps
<1> QED
    BY <1>3, <1>4

LEMMA SetAllowedAnswerKeeps ==
    ASSUME IInv, NEW m \in BagToSet(asked), m.op = "setAllowed", NEW answer,
           SetAllowedAnswered(m, answer)
    PROVE  IInv'
<1> DEFINE a == Ask("allowed", None, store, m.gone)
           l == Ask("lists", None, store, m.gone)
<1>1. m \in Requests /\ m.gone \in BOOLEAN /\ AskOK(m, view, asked)
    BY DEF IInv, Good, Typed, TextsOK, Requests
<1>2. Good(view, Rest(m)) /\ CredsIn(Rest(m), 1..issued \cup {None})
    BY GoodTake, CredsAre DEF IInv, Good, Typed, Rest
<1>3. CASE Locked(m, view) \/ Done(m, view)
    BY <1>2, <1>3, LockedKeeps, DoneKeeps
<1>4. CASE Settled(m, view, Rest(m) (+) RefreshAsks(store, m.gone)) /\ Keep
  <2>1. /\ view' = view /\ asked' = Rest(m) (+) (One(a) (+) One(l))
        /\ UNCHANGED <<store, valid, issued, refused, events>>
      BY <1>4 DEF Settled, Shown, RefreshAsks, Keep, hostVars
  <2>2. store \in 1..issued \cup {None}
        /\ Asks(a, "allowed", None, store, m.gone) /\ Asks(l, "lists", None, store, m.gone)
      BY <1>1, KnownAre, AskIs DEF IInv, HostOK, Ops
  <2>3. m.gone \/ view.mounted
      BY <1>1, Zenon DEF AskOK
  <2> HIDE DEF a, l
  <2>4. Good(view', asked') /\ CredsIn(asked', 1..issued \cup {None})
      BY <1>1, <1>2, <2>1, <2>2, <2>3, RefreshAdds
  <2>5. HostOK'
      BY <2>1 DEF IInv, HostOK
  <2> QED
      BY <2>1, <2>4, <2>5 DEF IInv
<1> QED
    BY <1>3, <1>4 DEF SetAllowedAnswered

LEMMA RevokeAnswerKeeps ==
    ASSUME IInv, NEW m \in BagToSet(asked), m.op = "revoke", NEW answer, RevokeAnswered(m, answer)
    PROVE  IInv'
<1>1. m \in Requests /\ m.gone \in BOOLEAN /\ AskOK(m, view, asked)
    BY DEF IInv, Good, Typed, TextsOK, Requests
<1>2. Good(view, Rest(m)) /\ CredsIn(Rest(m), 1..issued \cup {None})
    BY GoodTake, CredsAre DEF IInv, Good, Typed, Rest
<1>3. CASE Locked(m, view) \/ Done(m, view)
    BY <1>2, <1>3, LockedKeeps, DoneKeeps
<1>4. CASE ~AuthProblem(answer) /\ answer = "ok"
  <2> DEFINE inForce == store \in valid'
             l == [op |-> "lists", at |-> None, cred |-> store, inForce |-> inForce,
                   gone |-> m.gone, back |-> None, from |-> None, raced |-> FALSE]
  <2>1. /\ view' = view /\ asked' = Rest(m) (+) One(l)
        /\ UNCHANGED <<store, issued, refused, events>> /\ valid' \subseteq valid
      BY <1>4 DEF RevokeAnswered, Settled, Shown, Ask
  <2>2. inForce \in BOOLEAN /\ store \in 1..issued \cup {None} /\ store \in Creds \cup {None}
    <3>1. inForce \in BOOLEAN
        OBVIOUS
    <3> QED
        BY <3>1, KnownAre DEF IInv, HostOK
  <2> HIDE DEF inForce
  <2>3. Asks(l, "lists", None, store, m.gone)
      BY <1>1, <2>2, AsksRecord DEF Ops
  <2>4. m.gone \/ view.mounted
      BY <1>1, Zenon DEF AskOK
  <2> HIDE DEF l
  <2>5. Good(view', asked')
      BY <1>2, <2>1, <2>3, <2>4, GoodAdd DEF Asks
  <2>6. CredsIn(asked', 1..issued \cup {None})
      BY <1>2, <2>1, <2>2, <2>3, CredsAre DEF Asks, Good, Typed
  <2>7. HostOK'
      BY <2>1 DEF IInv, HostOK
  <2> QED
      BY <2>1, <2>5, <2>6, <2>7 DEF IInv
<1> QED
    BY <1>3, <1>4 DEF RevokeAnswered

LEMMA AnswerKeeps ==
    ASSUME IInv, NEW m \in BagToSet(asked), NEW answer, Callback(m, answer)
    PROVE  IInv'
<1>1. m.op \in Ops
    BY DEF IInv, Good, Typed, Requests
<1>2. \/ m.op = "list" /\ ListAnswered(m, answer)
      \/ m.op = "read" /\ ReadAnswered(m, answer)
      \/ m.op = "write" /\ WriteAnswered(m, answer)
      \/ m.op = "allowed" /\ AllowedAnswered(m, answer)
      \/ m.op = "lists" /\ ListsAnswered(m, answer)
      \/ m.op = "ensureWorkspace" /\ EnsureAnswered(m, answer)
      \/ m.op = "connect" /\ ConnectAnswered(m, answer)
      \/ m.op = "pair" /\ PairAnswered(m, answer)
      \/ m.op = "setAllowed" /\ SetAllowedAnswered(m, answer)
      \/ m.op = "revoke" /\ RevokeAnswered(m, answer)
    BY <1>1 DEF Callback, Ops
<1> QED
    BY <1>2, ListAnswerKeeps, ReadAnswerKeeps, PlainAnswerKeeps, EnsureAnswerKeeps,
       ConnectAnswerKeeps, PairAnswerKeeps, SetAllowedAnswerKeeps, RevokeAnswerKeeps

LEMMA InitKeeps == Init => IInv
<1> SUFFICES ASSUME Init PROVE IInv
    OBVIOUS
<1> DEFINE a == Ask("allowed", None, store, FALSE)
           l == Ask("lists", None, store, FALSE)
           v == Mounted(store)
<1>1. HostOK
    BY DEF Init, HostOK
<1>2. store \in 1..issued \cup {None} /\ store \in Creds \cup {None}
    BY <1>1, KnownAre DEF HostOK
<1>3. Asks(a, "allowed", None, store, FALSE) /\ Asks(l, "lists", None, store, FALSE)
    BY <1>2, AskIs DEF Ops
<1>4. view = v /\ asked = One(a) (+) One(l)
    BY DEF Init, RefreshAsks
<1> HIDE DEF a, l
<1>5. /\ v \in Views
      /\ v.mounted = TRUE /\ v.busy = FALSE /\ v.pairing = FALSE
      /\ v.loading = FALSE /\ v.preview = None /\ v.editing = None
    BY <1>2 DEF Mounted, Views
<1> HIDE DEF v
<1>6. IsABag(EmptyBag) /\ BagToSet(EmptyBag) = {}
    BY DEF IsABag, BagToSet, EmptyBag, SetToBag
<1>7. Good(v, EmptyBag) /\ CredsIn(EmptyBag, 1..issued \cup {None})
  <2>1. \A ops : Of(EmptyBag, ops) = {}
      BY <1>6, Zenon DEF Of
  <2>2. FlagsOK(v, EmptyBag)
      BY <1>5, <2>1, Zenon DEF FlagsOK, Opens
  <2>3. TextsOK(v, EmptyBag)
      BY <1>5, <1>6 DEF TextsOK, ViewOK
  <2> QED
      BY <1>5, <1>6, <2>2, <2>3 DEF Good, Typed, CredsIn
<1>8. Good(v, EmptyBag (+) (One(a) (+) One(l)))
      /\ CredsIn(EmptyBag (+) (One(a) (+) One(l)), 1..issued \cup {None})
    BY <1>2, <1>3, <1>5, <1>7, RefreshAdds
<1>9. EmptyBag (+) (One(a) (+) One(l)) = One(a) (+) One(l)
    BY DEF EmptyBag, One, SetToBag, (+)
<1> QED
    BY <1>1, <1>4, <1>8, <1>9 DEF IInv

LEMMA NextKeeps == IInv /\ [Next]_vars => IInv'
<1> SUFFICES ASSUME IInv, [Next]_vars PROVE IInv'
    OBVIOUS
<1>1. CASE UNCHANGED vars
    BY <1>1 DEF vars, hostVars, IInv, HostOK, Good, Typed, CredsIn
<1>2. ASSUME NEW k \in Creds, Revoke(k) PROVE IInv'
  <2>1. UNCHANGED <<store, view, asked, issued, refused>> /\ valid' \subseteq valid /\ Event
      BY <1>2 DEF Revoke
  <2>2. HostOK'
      BY <2>1 DEF IInv, HostOK, Event
  <2> QED
      BY <2>1, <2>2 DEF IInv
<1>3. CASE Answered
    BY <1>3, AnswerKeeps DEF Answered
<1> QED
    BY <1>1, <1>2, <1>3, UserKeeps DEF Next

LEMMA Always == Spec => []IInv
BY InitKeeps, NextKeeps, PTL DEF Spec

-----------------------------------------------------------------------------
(***************************************************************************)
(* The theorems.                                                           *)
(***************************************************************************)
(* Every value the component keeps is one it may keep, whatever the order  *)
(* in which answers come, and whether their views are still there.         *)
THEOREM TypeCorrect == Spec => []TypeOK
<1>1. IInv => TypeOK
    BY KnownAre DEF IInv, HostOK, Good, Typed, TypeOK, Creds
<1> QED
    BY <1>1, Always, PTL

(* A file is saved under the name it was read from, unless its reading     *)
(* overlapped a listing.                                                   *)
THEOREM SavesInPlace == Spec => []SavesWhatWasRead
<1>1. IInv => SavesWhatWasRead
    BY Zenon DEF IInv, Good, TextsOK, AskOK, SavesWhatWasRead
<1> QED
    BY <1>1, Always, PTL

(* A credential the phone was told the host refuses is never kept, though  *)
(* late answers come to requests made with others.                         *)
THEOREM RefusedStaysDropped == Spec => []RefusedIsDropped
<1>1. IInv => RefusedIsDropped
    BY DEF IInv, HostOK, RefusedIsDropped
<1> QED
    BY <1>1, Always, PTL

(* A view is busy, or pairing, exactly while one such request of its own   *)
(* is open, and shows "loading" only while a listing is.                   *)
THEOREM FlagsAreHonest == Spec => []FlagsHonest
<1>1. IInv => FlagsHonest
  <2>1. \A ops : Own(ops) = Of(asked, ops)
      BY DEF Own, Of
  <2> QED
      BY <2>1, Zenon DEF IInv, Good, FlagsOK, Opens, FlagsHonest, OneOpen
<1> QED
    BY <1>1, Always, PTL

(* The credential kept changes only to a new one, or with a refusal.       *)
LEMMA StoreChanges ==
    ASSUME IInv, NEW m \in BagToSet(asked), NEW answer, Callback(m, answer)
    PROVE  \/ store' = store
           \/ store' = issued + 1
           \/ answer = "refused" /\ asked' = Rest(m)
<1>1. m.op \in Ops
    BY DEF IInv, Good, Typed, Requests
<1>2. \A v : Locked(m, v) => asked' = Rest(m)
    BY DEF Locked, Settled
<1>3. \A v : Done(m, v) => store' = store
    BY DEF Done, Keep
<1>4. \A at : Reload(m, at) => store' = store
    BY DEF Reload, Keep
<1>5. AuthProblem(answer) => answer = "refused"
    BY DEF AuthProblem
<1>6. CASE ~AuthProblem(answer)
  <2>1. CASE m.op = "pair"
      BY <1>3, <2>1 DEF Callback, PairAnswered
  <2>2. CASE m.op = "list"
      BY <1>3, <1>6, <2>2 DEF Callback, ListAnswered
  <2>3. CASE m.op = "read"
      BY <1>3, <1>6, <2>3 DEF Callback, ReadAnswered
  <2>4. CASE m.op = "write"
      BY <1>3, <1>4, <1>6, <2>4 DEF Callback, WriteAnswered
  <2>5. CASE m.op = "allowed"
      BY <1>3, <1>4, <1>6, <2>5 DEF Callback, AllowedAnswered
  <2>6. CASE m.op = "lists"
      BY <1>3, <1>6, <2>6 DEF Callback, ListsAnswered
  <2>7. CASE m.op = "ensureWorkspace"
      BY <1>3, <1>6, <2>7 DEF Callback, EnsureAnswered, Keep
  <2>8. CASE m.op = "connect"
      BY <1>3, <2>8 DEF Callback, ConnectAnswered, Keep
  <2>9. CASE m.op = "setAllowed"
      BY <1>3, <1>6, <2>9 DEF Callback, SetAllowedAnswered, Keep
  <2>10. CASE m.op = "revoke"
      BY <1>3, <1>6, <2>10 DEF Callback, RevokeAnswered
  <2> QED
      BY <1>1, <2>1, <2>2, <2>3, <2>4, <2>5, <2>6, <2>7, <2>8, <2>9, <2>10 DEF Ops
<1>7. CASE AuthProblem(answer)
  <2>1. CASE m.op \in {"pair", "connect"}
      BY <1>3, <2>1 DEF Callback, PairAnswered, ConnectAnswered, Keep
  <2>2. CASE m.op \notin {"pair", "connect"}
    <3>1. \E v : Locked(m, v)
        BY <1>1, <1>7, <2>2 DEF Callback, ListAnswered, ReadAnswered, WriteAnswered, AllowedAnswered,
           ListsAnswered, EnsureAnswered, SetAllowedAnswered, RevokeAnswered, Ops
    <3> QED
        BY <1>2, <1>5, <1>7, <3>1
  <2> QED
      BY <2>1, <2>2
<1> QED
    BY <1>6, <1>7

(* A phone loses a credential that is in force only to the late answer to  *)
(* a request made with another one, or none.                               *)
THEOREM ValidStaysKept == Spec => ValidCredentialKept
<1> DEFINE Body ==
        store # None /\ store' = None =>
            \/ store \notin valid
            \/ \E m \in BagToSet(asked) : m.cred # store /\ Copies(m, asked') < Copies(m, asked)
<1>1. IInv /\ [Next]_vars => [Body]_vars
  <2> SUFFICES ASSUME IInv, Next, store # None, store' = None
               PROVE  \/ store \notin valid
                      \/ \E m \in BagToSet(asked) :
                             m.cred # store /\ Copies(m, asked') < Copies(m, asked)
      OBVIOUS
  <2>1. ~User /\ ~(\E k \in Creds : Revoke(k))
      BY DEF User, Open, Close, doPair, Go, openFile, Edit, Cancel, saveEdit, upload, startSessionHere,
             openWorkspace, Manage, Click, Revoke
  <2>2. PICK m \in BagToSet(asked) : \E answer \in Outcomes(m) : Callback(m, answer)
      BY <2>1 DEF Next, Answered
  <2>3. PICK answer \in Outcomes(m) : Callback(m, answer)
      BY <2>2
  <2>4. issued + 1 # None
      BY DEF IInv, HostOK
  <2>5. answer = "refused" /\ asked' = Rest(m)
      BY <2>3, <2>4, StoreChanges
  <2>6. m.cred \notin valid
      BY <2>3, <2>5 DEF Outcomes
  <2>7. Copies(m, asked') < Copies(m, asked)
    <3>1. Copies(m, asked') = Copies(m, asked) - 1
        BY <2>5, BagTake DEF IInv, Good, Typed, Rest
    <3>2. Copies(m, asked) \in Nat
        BY DEF IInv, Good, Typed, IsABag, BagToSet, Copies
    <3> QED
        BY <3>1, <3>2
  <2> QED
      BY <2>6, <2>7
<1> HIDE DEF Body
<1>2. Spec => [][Body]_vars
    BY <1>1, Always, PTL DEF Spec
<1> QED
    BY <1>2 DEF Body, ValidCredentialKept
=============================================================================
