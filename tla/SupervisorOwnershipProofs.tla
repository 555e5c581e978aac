--------------------- MODULE SupervisorOwnershipProofs ---------------------
(***************************************************************************)
(* For any number of processes: one owner per registry however many guards *)
(* are taken over; and, as long as none is, no start under an admission    *)
(* that did not elapse, nothing left of a released admission, and no       *)
(* renewal that overlooks a supervisor started since.                      *)
(***************************************************************************)
EXTENDS SupervisorOwnership, TLAPS

\* The operations of each role, and the discovery registry in every admission.
RoleInv ==
  /\ \A p \in Sups : /\ pc[p] \notin {"held", "lost", "released"}
                     /\ op[p] \in {"acquire", "release"}
  /\ \A a \in Admins : pc[a] # "owner" /\ "discovery" \in known[a] /\ "registry" \in known[a]
  /\ \A a \in Admins : op[a] = "extend" /\ Busy(a) => "custom" \notin known[a]

\* What the position of a process says about the guards it took.
Place(p) ==
  /\ \A d \in mine[p] : d \in Wanted(p)
  /\ pc[p] \in {"inside", "checked"} => \A d \in Wanted(p) : d \in mine[p]
  /\ pc[p] = "checked" => op[p] # "release"
  /\ ~Busy(p) => mine[p] = {}
  /\ pc[p] = "leaving" => mine[p] # {}
  /\ mine[p] # {} /\ "discovery" \in Wanted(p) => "discovery" \in mine[p]
PlaceInv == \A p \in Procs : Place(p)

\* A live guard holder knows that it took the guard.
TookInv == \A p \in alive, d \in Dirs : guard[d] = p => d \in mine[p]

ShapeInv == RoleInv /\ PlaceInv /\ TookInv

\* A supervisor that owns its registry or will, unless its discovery guard is
\* taken over: it published, and its home guard did not change hands since.
Solid(p) ==
  \/ Owns(p)
  \/ /\ p \in alive
     /\ op[p] = "acquire" /\ pc[p] = "leaving" /\ result[p] = "ok"
     /\ Home(p) \in mine[p] => guard[Home(p)] = p

\* Owner records, solid supervisors, and checks that still mean something.
OwnerInv ==
  /\ \A p \in Sups : Solid(p) => p \in owners[Home(p)]
  /\ \A p, q \in Sups : Solid(p) /\ Solid(q) /\ Home(p) = Home(q) => p = q
  /\ \A p, q \in Sups :
       /\ p \in alive /\ op[p] = "acquire" /\ pc[p] = "checked"
       /\ guard[Home(p)] = p /\ Home(q) = Home(p)
       => ~Solid(q)

\* No live holder lost a guard.
HandInv == \A p \in alive : \A d \in mine[p] : guard[d] = p

\* An admission that did not elapse is on disk and active in every registry it
\* covers, from the moment it was written.
HeldFresh ==
  \A a \in (Admins \cap alive) \ late :
    Holding(a) \/ (op[a] = "acquire" /\ pc[a] = "leaving" /\ result[a] = "ok")
      => \A d \in known[a] : admission[d] = Fresh(a)
ExtensionFresh ==
  \A a \in (Admins \cap alive) \ late :
    op[a] = "extend" /\ pc[a] = "leaving" /\ result[a] = "ok" => admission["custom"] = Fresh(a)

\* What a guarded section found out about the admissions still holds.
AdmissionChecked ==
  \A a \in Admins \cap alive :
    op[a] = "acquire" /\ pc[a] = "checked" => \A d \in known[a] : ~Active(d)
ExtensionChecked ==
  \A a \in Admins \cap alive :
    op[a] = "extend" /\ pc[a] = "checked" =>
      /\ \A d \in known[a] : admission[d].by = a
      /\ Active("custom") => admission["custom"].by = a
OwnerChecked ==
  \A p \in Sups \cap alive :
    op[p] = "acquire" /\ (pc[p] = "checked" \/ (pc[p] = "leaving" /\ result[p] = "ok"))
      => ~Active("discovery")

NotOvertaken == \A a \in Admins \ late : since[a] = {}

FenceInv ==
  /\ HeldFresh /\ ExtensionFresh
  /\ AdmissionChecked /\ ExtensionChecked /\ OwnerChecked
  /\ NotOvertaken

IInv == TypeOK /\ ShapeInv /\ OwnerInv /\ (pauses = 0 => HandInv /\ FenceInv)

USE OwnershipAssumption
    DEF OwnershipAssumption, Sups, Procs, Dirs, Rank, Ops, Results, PCs, Home,
        NoAdmission, Fresh, Active, Busy, ShapeInv

---------------------------------------------------------------------------
(* Each step preserves the inductive invariant.                            *)

\* The discovery registry is locked first.
LEMMA DiscoveryFirst == \A d \in Dirs : d # "discovery" => Rank["discovery"] < Rank[d]
BY DEF Rank

\* A sweep keeps the admission it stopped at.
LEMMA SweptKeepsActive ==
  ASSUME NEW p, NEW ds, NEW d \in Dirs, Active(d)
  PROVE  Swept(p, ds)[d] = admission[d]
<1>1. ReadOrder(p)[d] \in Nat
  BY DEF ReadOrder, Rank
<1>2. ReadOrder(p)[d] <= ReadOrder(p)[d]
  BY <1>1
<1>3. d \in ds => ~(\A e \in ds : ReadOrder(p)[e] <= ReadOrder(p)[d] => ~Active(e))
  BY <1>2
<1>4. QED
  BY <1>3 DEF Swept

\* An operation starts.
LEMMA AcquireStep ==
  ASSUME IInv, NEW p \in Procs, Acquire(p)
  PROVE  IInv'
<1> USE DEF IInv, Acquire, Start
<1>1. TypeOK'
  BY DEF TypeOK
<1>2. ShapeInv'
  <2>1. RoleInv'
    BY DEF TypeOK, RoleInv
  <2>2. PlaceInv'
    <3>1. ASSUME NEW q \in Procs, q # p
          PROVE  Place(q)'
      BY <3>1 DEF TypeOK, PlaceInv, Place, Wanted
    <3>2. Place(p)'
      BY DEF TypeOK, RoleInv, PlaceInv, Place, Wanted
    <3>3. QED
      BY <3>1, <3>2 DEF PlaceInv
  <2>3. TookInv'
    BY DEF TypeOK, TookInv
  <2>4. QED
    BY <2>1, <2>2, <2>3
<1>3. OwnerInv'
  BY DEF TypeOK, RoleInv, PlaceInv, Place, Wanted, OwnerInv, Solid, Owns
<1>4. ASSUME pauses' = 0
      PROVE  pauses = 0 /\ HandInv /\ FenceInv
  BY <1>4 DEF TypeOK
<1>5. ASSUME pauses' = 0
      PROVE  HandInv'
  BY <1>4, <1>5 DEF TypeOK, PlaceInv, Place, TookInv, HandInv
<1>6. ASSUME pauses' = 0
      PROVE  FenceInv'
  BY <1>4, <1>6 DEF TypeOK, RoleInv, PlaceInv, Place, Wanted, HandInv, FenceInv, Holding,
                    HeldFresh, ExtensionFresh, AdmissionChecked, ExtensionChecked,
                    OwnerChecked, NotOvertaken
<1>7. QED
  BY <1>1, <1>2, <1>3, <1>5, <1>6

\* An owner gives its claim up, but its record stays until it is removed.
LEMMA ReleaseOwnerStep ==
  ASSUME IInv, NEW p \in Sups, ReleaseOwner(p)
  PROVE  IInv'
<1> USE DEF IInv, ReleaseOwner, Start
<1>1. TypeOK'
  BY DEF TypeOK
<1>2. ShapeInv'
  <2>1. RoleInv'
    BY DEF TypeOK, RoleInv
  <2>2. PlaceInv'
    <3>1. ASSUME NEW q \in Procs, q # p
          PROVE  Place(q)'
      BY <3>1 DEF TypeOK, PlaceInv, Place, Wanted
    <3>2. Place(p)'
      BY DEF TypeOK, RoleInv, PlaceInv, Place, Wanted
    <3>3. QED
      BY <3>1, <3>2 DEF PlaceInv
  <2>3. TookInv'
    BY DEF TypeOK, TookInv
  <2>4. QED
    BY <2>1, <2>2, <2>3
<1>3. OwnerInv'
  BY DEF TypeOK, RoleInv, PlaceInv, Place, Wanted, OwnerInv, Solid, Owns
<1>4. ASSUME pauses' = 0
      PROVE  pauses = 0 /\ HandInv /\ FenceInv
  BY <1>4 DEF TypeOK
<1>5. ASSUME pauses' = 0
      PROVE  HandInv'
  BY <1>4, <1>5 DEF TypeOK, PlaceInv, Place, TookInv, HandInv
<1>6. ASSUME pauses' = 0
      PROVE  FenceInv'
  BY <1>4, <1>6 DEF TypeOK, RoleInv, PlaceInv, Place, Wanted, HandInv, FenceInv, Holding,
                    HeldFresh, ExtensionFresh, AdmissionChecked, ExtensionChecked,
                    OwnerChecked, NotOvertaken
<1>7. QED
  BY <1>1, <1>2, <1>3, <1>5, <1>6

\* A renewal starts.
LEMMA RenewStep ==
  ASSUME IInv, NEW p \in Admins, Renew(p)
  PROVE  IInv'
<1> USE DEF IInv, Renew, Start
<1>1. TypeOK'
  BY DEF TypeOK
<1>2. ShapeInv'
  <2>1. RoleInv'
    BY DEF TypeOK, RoleInv
  <2>2. PlaceInv'
    <3>1. ASSUME NEW q \in Procs, q # p
          PROVE  Place(q)'
      BY <3>1 DEF TypeOK, PlaceInv, Place, Wanted
    <3>2. Place(p)'
      BY DEF TypeOK, RoleInv, PlaceInv, Place, Wanted
    <3>3. QED
      BY <3>1, <3>2 DEF PlaceInv
  <2>3. TookInv'
    BY DEF TypeOK, TookInv
  <2>4. QED
    BY <2>1, <2>2, <2>3
<1>3. OwnerInv'
  BY DEF TypeOK, RoleInv, PlaceInv, Place, Wanted, OwnerInv, Solid, Owns
<1>4. ASSUME pauses' = 0
      PROVE  pauses = 0 /\ HandInv /\ FenceInv
  BY <1>4 DEF TypeOK
<1>5. ASSUME pauses' = 0
      PROVE  HandInv'
  BY <1>4, <1>5 DEF TypeOK, PlaceInv, Place, TookInv, HandInv
<1>6. ASSUME pauses' = 0
      PROVE  FenceInv'
  BY <1>4, <1>6 DEF TypeOK, RoleInv, PlaceInv, Place, Wanted, HandInv, FenceInv, Holding,
                    HeldFresh, ExtensionFresh, AdmissionChecked, ExtensionChecked,
                    OwnerChecked, NotOvertaken
<1>7. QED
  BY <1>1, <1>2, <1>3, <1>5, <1>6

\* An extension starts.
LEMMA ExtendStep ==
  ASSUME IInv, NEW p \in Admins, Extend(p)
  PROVE  IInv'
<1> USE DEF IInv, Extend, Start
<1>1. TypeOK'
  BY DEF TypeOK
<1>2. ShapeInv'
  <2>1. RoleInv'
    BY DEF TypeOK, RoleInv
  <2>2. PlaceInv'
    <3>1. ASSUME NEW q \in Procs, q # p
          PROVE  Place(q)'
      BY <3>1 DEF TypeOK, PlaceInv, Place, Wanted
    <3>2. Place(p)'
      BY DEF TypeOK, RoleInv, PlaceInv, Place, Wanted
    <3>3. QED
      BY <3>1, <3>2 DEF PlaceInv
  <2>3. TookInv'
    BY DEF TypeOK, TookInv
  <2>4. QED
    BY <2>1, <2>2, <2>3
<1>3. OwnerInv'
  BY DEF TypeOK, RoleInv, PlaceInv, Place, Wanted, OwnerInv, Solid, Owns
<1>4. ASSUME pauses' = 0
      PROVE  pauses = 0 /\ HandInv /\ FenceInv
  BY <1>4 DEF TypeOK
<1>5. ASSUME pauses' = 0
      PROVE  HandInv'
  BY <1>4, <1>5 DEF TypeOK, PlaceInv, Place, TookInv, HandInv
<1>6. ASSUME pauses' = 0
      PROVE  FenceInv'
  BY <1>4, <1>6 DEF TypeOK, RoleInv, PlaceInv, Place, Wanted, HandInv, FenceInv, Holding,
                    HeldFresh, ExtensionFresh, AdmissionChecked, ExtensionChecked,
                    OwnerChecked, NotOvertaken
<1>7. QED
  BY <1>1, <1>2, <1>3, <1>5, <1>6

\* A release waits for the renewal under way.
LEMMA CallReleaseStep ==
  ASSUME IInv, NEW p \in Admins, CallRelease(p)
  PROVE  IInv'
<1> USE DEF IInv, CallRelease
<1>1. TypeOK'
  BY DEF TypeOK
<1>2. ShapeInv'
  <2>1. RoleInv'
    BY DEF TypeOK, RoleInv
  <2>2. PlaceInv'
    <3>1. ASSUME NEW q \in Procs, q # p
          PROVE  Place(q)'
      BY <3>1 DEF TypeOK, PlaceInv, Place, Wanted
    <3>2. Place(p)'
      BY DEF TypeOK, RoleInv, PlaceInv, Place, Wanted
    <3>3. QED
      BY <3>1, <3>2 DEF PlaceInv
  <2>3. TookInv'
    BY DEF TypeOK, TookInv
  <2>4. QED
    BY <2>1, <2>2, <2>3
<1>3. OwnerInv'
  BY DEF TypeOK, RoleInv, PlaceInv, Place, Wanted, OwnerInv, Solid, Owns
<1>4. ASSUME pauses' = 0
      PROVE  pauses = 0 /\ HandInv /\ FenceInv
  BY <1>4 DEF TypeOK
<1>5. ASSUME pauses' = 0
      PROVE  HandInv'
  BY <1>4, <1>5 DEF TypeOK, PlaceInv, Place, TookInv, HandInv
<1>6. ASSUME pauses' = 0
      PROVE  FenceInv'
  BY <1>4, <1>6 DEF TypeOK, RoleInv, PlaceInv, Place, Wanted, HandInv, FenceInv, Holding,
                    HeldFresh, ExtensionFresh, AdmissionChecked, ExtensionChecked,
                    OwnerChecked, NotOvertaken
<1>7. QED
  BY <1>1, <1>2, <1>3, <1>5, <1>6

\* The release goes on.
LEMMA ReleaseAdmissionStep ==
  ASSUME IInv, NEW p \in Admins, ReleaseAdmission(p)
  PROVE  IInv'
<1> USE DEF IInv, ReleaseAdmission, Start
<1>1. TypeOK'
  BY DEF TypeOK
<1>2. ShapeInv'
  <2>1. RoleInv'
    BY DEF TypeOK, RoleInv
  <2>2. PlaceInv'
    <3>1. ASSUME NEW q \in Procs, q # p
          PROVE  Place(q)'
      BY <3>1 DEF TypeOK, PlaceInv, Place, Wanted
    <3>2. Place(p)'
      BY DEF TypeOK, RoleInv, PlaceInv, Place, Wanted
    <3>3. QED
      BY <3>1, <3>2 DEF PlaceInv
  <2>3. TookInv'
    BY DEF TypeOK, TookInv
  <2>4. QED
    BY <2>1, <2>2, <2>3
<1>3. OwnerInv'
  BY DEF TypeOK, RoleInv, PlaceInv, Place, Wanted, OwnerInv, Solid, Owns
<1>4. ASSUME pauses' = 0
      PROVE  pauses = 0 /\ HandInv /\ FenceInv
  BY <1>4 DEF TypeOK
<1>5. ASSUME pauses' = 0
      PROVE  HandInv'
  BY <1>4, <1>5 DEF TypeOK, PlaceInv, Place, TookInv, HandInv
<1>6. ASSUME pauses' = 0
      PROVE  FenceInv'
  BY <1>4, <1>6 DEF TypeOK, RoleInv, PlaceInv, Place, Wanted, HandInv, FenceInv, Holding,
                    HeldFresh, ExtensionFresh, AdmissionChecked, ExtensionChecked,
                    OwnerChecked, NotOvertaken
<1>7. QED
  BY <1>1, <1>2, <1>3, <1>5, <1>6

\* A guard is taken, perhaps from a stalled holder.
LEMMA LockStep ==
  ASSUME IInv, NEW p \in Procs, NEW d \in Dirs, Lock(p, d)
  PROVE  IInv'
<1> USE DEF IInv, Lock, NextGuard
<1>1. TypeOK'
  BY DEF TypeOK
<1>2. ShapeInv'
  <2>1. RoleInv'
    BY DEF TypeOK, RoleInv
  <2>2. PlaceInv'
    <3>1. ASSUME NEW q \in Procs, q # p
          PROVE  Place(q)'
      BY <3>1 DEF TypeOK, PlaceInv, Place, Wanted
    <3>2. Place(p)'
      <4>1. Place(p) /\ mine'[p] = mine[p] \cup {d} /\ Wanted(p)' = Wanted(p)
        BY DEF TypeOK, PlaceInv, Wanted
      <4>2. "discovery" \in Wanted(p) => "discovery" \in mine'[p]
        BY <4>1, DiscoveryFirst
      <4>3. pc'[p] = "inside" => \A e \in Wanted(p) : e \in mine'[p]
        BY <4>1 DEF TypeOK
      <4>4. pc'[p] \in {"inside", "lock"}
        BY DEF TypeOK
      <4>5. \A e \in mine'[p] : e \in Wanted(p)
        BY <4>1 DEF Place
      <4>6. QED
        BY <4>1, <4>2, <4>3, <4>4, <4>5 DEF Place
    <3>3. QED
      BY <3>1, <3>2 DEF PlaceInv
  <2>3. TookInv'
    BY DEF TypeOK, TookInv
  <2>4. QED
    BY <2>1, <2>2, <2>3
<1>3. OwnerInv'
  BY DEF TypeOK, RoleInv, PlaceInv, Place, Wanted, OwnerInv, Solid, Owns
<1>4. ASSUME pauses' = 0
      PROVE  pauses = 0 /\ HandInv /\ FenceInv
  BY <1>4 DEF TypeOK
<1>5. ASSUME pauses' = 0
      PROVE  HandInv'
  BY <1>4, <1>5 DEF TypeOK, PlaceInv, Place, TookInv, HandInv
<1>6. ASSUME pauses' = 0
      PROVE  FenceInv'
  BY <1>4, <1>6 DEF TypeOK, RoleInv, PlaceInv, Place, Wanted, HandInv, FenceInv, Holding,
                    HeldFresh, ExtensionFresh, AdmissionChecked, ExtensionChecked,
                    OwnerChecked, NotOvertaken
<1>7. QED
  BY <1>1, <1>2, <1>3, <1>5, <1>6

\* A guard is given back; the last one settles the operation.
LEMMA LeaveStep ==
  ASSUME IInv, NEW p \in Procs, NEW d \in Dirs, Leave(p, d)
  PROVE  IInv'
<1> USE DEF IInv, Leave, Settle, Outcome
<1>1. TypeOK'
  BY DEF TypeOK
<1>2. ShapeInv'
  <2>1. RoleInv'
    BY DEF TypeOK, RoleInv
  <2>2. PlaceInv'
    <3>1. ASSUME NEW q \in Procs, q # p
          PROVE  Place(q)'
      BY <3>1 DEF TypeOK, PlaceInv, Place, Wanted
    <3>2. Place(p)'
      <4>1. Place(p) /\ mine'[p] = mine[p] \ {d}
        BY DEF TypeOK, PlaceInv
      <4>2. CASE mine[p] = {d}
        <5>1. mine'[p] = {} /\ pc'[p] \notin {"inside", "checked", "leaving"}
          BY <4>1, <4>2 DEF TypeOK
        <5>2. QED
          BY <5>1 DEF Place
      <4>3. CASE mine[p] # {d}
        <5>1. pc'[p] = "leaving" /\ Wanted(p)' = Wanted(p) /\ mine'[p] # {}
          BY <4>1, <4>3 DEF TypeOK, Wanted
        <5>2. d # "discovery"
          <6>1. PICK e \in mine[p] : e # d
            BY <4>1, <4>3
          <6>2. Rank[e] <= Rank[d] /\ e \in Dirs /\ Rank[e] \in Nat /\ Rank[d] \in Nat
            BY <6>1 DEF TypeOK
          <6>3. e # "discovery" => Rank["discovery"] < Rank[e]
            BY <6>2, DiscoveryFirst
          <6>4. QED
            BY <6>1, <6>2, <6>3
        <5>3. QED
          BY <4>1, <5>1, <5>2 DEF Place
      <4>4. QED
        BY <4>2, <4>3
    <3>3. QED
      BY <3>1, <3>2 DEF PlaceInv
  <2>3. TookInv'
    BY DEF TypeOK, TookInv
  <2>4. QED
    BY <2>1, <2>2, <2>3
<1>3. OwnerInv'
  BY DEF TypeOK, RoleInv, PlaceInv, Place, Wanted, OwnerInv, Solid, Owns
<1>4. ASSUME pauses' = 0
      PROVE  pauses = 0 /\ HandInv /\ FenceInv
  BY <1>4 DEF TypeOK
<1>5. ASSUME pauses' = 0
      PROVE  HandInv'
  BY <1>4, <1>5 DEF TypeOK, PlaceInv, Place, TookInv, HandInv
<1>6. ASSUME pauses' = 0
      PROVE  FenceInv'
  <2>1. HeldFresh'
    BY <1>4, <1>6 DEF TypeOK, RoleInv, PlaceInv, Place, Wanted, HandInv, FenceInv, Holding, HeldFresh, ExtensionFresh, AdmissionChecked, ExtensionChecked, OwnerChecked, NotOvertaken
  <2>2. ExtensionFresh'
    BY <1>4, <1>6 DEF TypeOK, RoleInv, PlaceInv, Place, Wanted, HandInv, FenceInv, Holding, HeldFresh, ExtensionFresh, AdmissionChecked, ExtensionChecked, OwnerChecked, NotOvertaken
  <2>3. AdmissionChecked'
    BY <1>4, <1>6 DEF TypeOK, RoleInv, PlaceInv, Place, Wanted, HandInv, FenceInv, Holding, HeldFresh, ExtensionFresh, AdmissionChecked, ExtensionChecked, OwnerChecked, NotOvertaken
  <2>4. ExtensionChecked'
    BY <1>4, <1>6 DEF TypeOK, RoleInv, PlaceInv, Place, Wanted, HandInv, FenceInv, Holding, HeldFresh, ExtensionFresh, AdmissionChecked, ExtensionChecked, OwnerChecked, NotOvertaken
  <2>5. OwnerChecked'
    BY <1>4, <1>6 DEF TypeOK, RoleInv, PlaceInv, Place, Wanted, HandInv, FenceInv, Holding, HeldFresh, ExtensionFresh, AdmissionChecked, ExtensionChecked, OwnerChecked, NotOvertaken
  <2>6. NotOvertaken'
    <3>1. ASSUME NEW a \in Admins, a \notin late, p \in Sups, op[p] = "acquire",
                 mine[p] = {d}, guard[d] = p, result[p] = "ok", Holding(a)
          PROVE  FALSE
      <4>1. d = "discovery"
        BY <3>1 DEF PlaceInv, Place, Wanted
      <4>2. ~Active("discovery")
        BY <1>4, <1>6, <3>1 DEF FenceInv, OwnerChecked
      <4>3. admission["discovery"] = Fresh(a) /\ a \in alive
        BY <1>4, <1>6, <3>1 DEF RoleInv, FenceInv, HeldFresh, Holding
      <4>4. QED
        BY <4>2, <4>3
    <3>2. NotOvertaken
      BY <1>4, <1>6 DEF FenceInv
    <3>3. CASE p \in Sups /\ op[p] = "acquire" /\ mine[p] = {d} /\ guard[d] = p
               /\ result[p] = "ok"
      BY <3>1, <3>2, <3>3 DEF TypeOK, NotOvertaken
    <3>4. CASE ~(p \in Sups /\ op[p] = "acquire" /\ mine[p] = {d} /\ guard[d] = p
                 /\ result[p] = "ok")
      <4>1. since' = since
        BY <3>4 DEF TypeOK
      <4>2. QED
        BY <3>2, <4>1 DEF NotOvertaken
    <3>5. QED
      BY <3>3, <3>4
  <2>7. QED
    BY <2>1, <2>2, <2>3, <2>4, <2>5, <2>6 DEF FenceInv
<1>7. QED
  BY <1>1, <1>2, <1>3, <1>5, <1>6

\* A guard could not be had.
LEMMA GiveUpStep ==
  ASSUME IInv, NEW p \in Procs, NEW d \in Dirs, GiveUp(p, d)
  PROVE  IInv'
<1> USE DEF IInv, GiveUp, Settle, Outcome, NextGuard
<1>1. TypeOK'
  BY DEF TypeOK
<1>2. ShapeInv'
  <2>1. RoleInv'
    BY DEF TypeOK, RoleInv
  <2>2. PlaceInv'
    <3>1. ASSUME NEW q \in Procs, q # p
          PROVE  Place(q)'
      BY <3>1 DEF TypeOK, PlaceInv, Place, Wanted
    <3>2. Place(p)'
      BY DEF TypeOK, RoleInv, PlaceInv, Place, Wanted
    <3>3. QED
      BY <3>1, <3>2 DEF PlaceInv
  <2>3. TookInv'
    BY DEF TypeOK, TookInv
  <2>4. QED
    BY <2>1, <2>2, <2>3
<1>3. OwnerInv'
  BY DEF TypeOK, RoleInv, PlaceInv, Place, Wanted, OwnerInv, Solid, Owns
<1>4. ASSUME pauses' = 0
      PROVE  pauses = 0 /\ HandInv /\ FenceInv
  BY <1>4 DEF TypeOK
<1>5. ASSUME pauses' = 0
      PROVE  HandInv'
  BY <1>4, <1>5 DEF TypeOK, PlaceInv, Place, TookInv, HandInv
<1>6. ASSUME pauses' = 0
      PROVE  FenceInv'
  BY <1>4, <1>6 DEF TypeOK, RoleInv, PlaceInv, Place, Wanted, HandInv, FenceInv, Holding,
                    HeldFresh, ExtensionFresh, AdmissionChecked, ExtensionChecked,
                    OwnerChecked, NotOvertaken
<1>7. QED
  BY <1>1, <1>2, <1>3, <1>5, <1>6

\* A starting supervisor looks for admissions and owners.
LEMMA CheckOwnersStep ==
  ASSUME IInv, NEW p \in Sups, CheckOwners(p)
  PROVE  IInv'
<1> USE DEF IInv, CheckOwners, Inside, To, Swept
<1>1. TypeOK'
  BY DEF TypeOK
<1>2. ShapeInv'
  <2>1. RoleInv'
    BY DEF TypeOK, RoleInv
  <2>2. PlaceInv'
    <3>1. ASSUME NEW q \in Procs, q # p
          PROVE  Place(q)'
      BY <3>1 DEF TypeOK, PlaceInv, Place, Wanted
    <3>2. Place(p)'
      BY DEF TypeOK, RoleInv, PlaceInv, Place, Wanted
    <3>3. QED
      BY <3>1, <3>2 DEF PlaceInv
  <2>3. TookInv'
    BY DEF TypeOK, TookInv
  <2>4. QED
    BY <2>1, <2>2, <2>3
<1>3. OwnerInv'
  BY DEF TypeOK, RoleInv, PlaceInv, Place, Wanted, OwnerInv, Solid, Owns
<1>4. ASSUME pauses' = 0
      PROVE  pauses = 0 /\ HandInv /\ FenceInv
  BY <1>4 DEF TypeOK
<1>5. ASSUME pauses' = 0
      PROVE  HandInv'
  BY <1>4, <1>5 DEF TypeOK, PlaceInv, Place, TookInv, HandInv
<1>6. ASSUME pauses' = 0
      PROVE  FenceInv'
  <2>1. HeldFresh'
    <3>0. /\ alive' = alive /\ late' = late /\ known' = known
          /\ \A a \in Admins : /\ pc'[a] = pc[a] /\ op'[a] = op[a]
                               /\ result'[a] = result[a] /\ Holding(a)' = Holding(a)
      BY DEF TypeOK, RoleInv, Holding
    <3>1. ASSUME NEW a \in (Admins \cap alive) \ late,
                 Holding(a) \/ (/\ op[a] = "acquire" /\ pc[a] = "leaving"
                               /\ result[a] = "ok"),
                 NEW d \in known[a]
          PROVE  admission'[d] = Fresh(a)
      <4>2. admission[d] = Fresh(a) /\ d \in Dirs
        BY <1>4, <1>6, <3>1 DEF TypeOK, FenceInv, HeldFresh
      <4>3. Active(d)
        BY <3>1, <4>2
      <4>4. admission' = Swept(p, Wanted(p))
        OBVIOUS
      <4>5. Swept(p, Wanted(p))[d] = admission[d]
        BY ONLY <4>2, <4>3, SweptKeepsActive
      <4>6. QED
        BY <4>2, <4>4, <4>5
    <3>2. QED
      BY ONLY <3>0, <3>1 DEF HeldFresh
  <2>2. ExtensionFresh'
    BY <1>4, <1>6 DEF TypeOK, RoleInv, PlaceInv, Place, Wanted, HandInv, FenceInv, Holding, HeldFresh, ExtensionFresh, AdmissionChecked, ExtensionChecked, OwnerChecked, NotOvertaken
  <2>3. AdmissionChecked'
    BY <1>4, <1>6 DEF TypeOK, RoleInv, PlaceInv, Place, Wanted, HandInv, FenceInv, Holding, HeldFresh, ExtensionFresh, AdmissionChecked, ExtensionChecked, OwnerChecked, NotOvertaken
  <2>4. ExtensionChecked'
    BY <1>4, <1>6 DEF TypeOK, RoleInv, PlaceInv, Place, Wanted, HandInv, FenceInv, Holding, HeldFresh, ExtensionFresh, AdmissionChecked, ExtensionChecked, OwnerChecked, NotOvertaken
  <2>5. OwnerChecked'
    BY <1>4, <1>6 DEF TypeOK, RoleInv, PlaceInv, Place, Wanted, HandInv, FenceInv, Holding, HeldFresh, ExtensionFresh, AdmissionChecked, ExtensionChecked, OwnerChecked, NotOvertaken
  <2>6. NotOvertaken'
    BY <1>4, <1>6 DEF TypeOK, RoleInv, PlaceInv, Place, Wanted, HandInv, FenceInv, Holding, HeldFresh, ExtensionFresh, AdmissionChecked, ExtensionChecked, OwnerChecked, NotOvertaken
  <2>7. QED
    BY <2>1, <2>2, <2>3, <2>4, <2>5, <2>6 DEF FenceInv
<1>7. QED
  BY <1>1, <1>2, <1>3, <1>5, <1>6

\* It publishes its record.
LEMMA PublishStep ==
  ASSUME IInv, NEW p \in Sups, Publish(p)
  PROVE  IInv'
<1> USE DEF IInv, Publish, To
<1>1. TypeOK'
  BY DEF TypeOK
<1>2. ShapeInv'
  <2>1. RoleInv'
    BY DEF TypeOK, RoleInv
  <2>2. PlaceInv'
    <3>1. ASSUME NEW q \in Procs, q # p
          PROVE  Place(q)'
      BY <3>1 DEF TypeOK, PlaceInv, Place, Wanted
    <3>2. Place(p)'
      BY DEF TypeOK, RoleInv, PlaceInv, Place, Wanted
    <3>3. QED
      BY <3>1, <3>2 DEF PlaceInv
  <2>3. TookInv'
    BY DEF TypeOK, TookInv
  <2>4. QED
    BY <2>1, <2>2, <2>3
<1>3. OwnerInv'
  BY DEF TypeOK, RoleInv, PlaceInv, Place, Wanted, OwnerInv, Solid, Owns
<1>4. ASSUME pauses' = 0
      PROVE  pauses = 0 /\ HandInv /\ FenceInv
  BY <1>4 DEF TypeOK
<1>5. ASSUME pauses' = 0
      PROVE  HandInv'
  BY <1>4, <1>5 DEF TypeOK, PlaceInv, Place, TookInv, HandInv
<1>6. ASSUME pauses' = 0
      PROVE  FenceInv'
  BY <1>4, <1>6 DEF TypeOK, RoleInv, PlaceInv, Place, Wanted, HandInv, FenceInv, Holding,
                    HeldFresh, ExtensionFresh, AdmissionChecked, ExtensionChecked,
                    OwnerChecked, NotOvertaken
<1>7. QED
  BY <1>1, <1>2, <1>3, <1>5, <1>6

\* Its publication fails; if undoing it fails too, the record stays although the start has
\* failed.
LEMMA PublishFailsStep ==
  ASSUME IInv, NEW p \in Sups, PublishFails(p)
  PROVE  IInv'
<1> USE DEF IInv, PublishFails, To
<1>1. TypeOK'
  BY DEF TypeOK
<1>2. ShapeInv'
  <2>1. RoleInv'
    BY DEF TypeOK, RoleInv
  <2>2. PlaceInv'
    <3>1. ASSUME NEW q \in Procs, q # p
          PROVE  Place(q)'
      BY <3>1 DEF TypeOK, PlaceInv, Place, Wanted
    <3>2. Place(p)'
      BY DEF TypeOK, RoleInv, PlaceInv, Place, Wanted
    <3>3. QED
      BY <3>1, <3>2 DEF PlaceInv
  <2>3. TookInv'
    BY DEF TypeOK, TookInv
  <2>4. QED
    BY <2>1, <2>2, <2>3
<1>3. OwnerInv'
  BY DEF TypeOK, RoleInv, PlaceInv, Place, Wanted, OwnerInv, Solid, Owns
<1>4. ASSUME pauses' = 0
      PROVE  pauses = 0 /\ HandInv /\ FenceInv
  BY <1>4 DEF TypeOK
<1>5. ASSUME pauses' = 0
      PROVE  HandInv'
  BY <1>4, <1>5 DEF TypeOK, PlaceInv, Place, TookInv, HandInv
<1>6. ASSUME pauses' = 0
      PROVE  FenceInv'
  BY <1>4, <1>6 DEF TypeOK, RoleInv, PlaceInv, Place, Wanted, HandInv, FenceInv, Holding,
                    HeldFresh, ExtensionFresh, AdmissionChecked, ExtensionChecked,
                    OwnerChecked, NotOvertaken
<1>7. QED
  BY <1>1, <1>2, <1>3, <1>5, <1>6

\* A stopping supervisor removes its record.
LEMMA RemoveOwnerStep ==
  ASSUME IInv, NEW p \in Sups, RemoveOwner(p)
  PROVE  IInv'
<1> USE DEF IInv, RemoveOwner, Inside, To
<1>1. TypeOK'
  BY DEF TypeOK
<1>2. ShapeInv'
  <2>1. RoleInv'
    BY DEF TypeOK, RoleInv
  <2>2. PlaceInv'
    <3>1. ASSUME NEW q \in Procs, q # p
          PROVE  Place(q)'
      BY <3>1 DEF TypeOK, PlaceInv, Place, Wanted
    <3>2. Place(p)'
      BY DEF TypeOK, RoleInv, PlaceInv, Place, Wanted
    <3>3. QED
      BY <3>1, <3>2 DEF PlaceInv
  <2>3. TookInv'
    BY DEF TypeOK, TookInv
  <2>4. QED
    BY <2>1, <2>2, <2>3
<1>3. OwnerInv'
  BY DEF TypeOK, RoleInv, PlaceInv, Place, Wanted, OwnerInv, Solid, Owns
<1>4. ASSUME pauses' = 0
      PROVE  pauses = 0 /\ HandInv /\ FenceInv
  BY <1>4 DEF TypeOK
<1>5. ASSUME pauses' = 0
      PROVE  HandInv'
  BY <1>4, <1>5 DEF TypeOK, PlaceInv, Place, TookInv, HandInv
<1>6. ASSUME pauses' = 0
      PROVE  FenceInv'
  BY <1>4, <1>6 DEF TypeOK, RoleInv, PlaceInv, Place, Wanted, HandInv, FenceInv, Holding,
                    HeldFresh, ExtensionFresh, AdmissionChecked, ExtensionChecked,
                    OwnerChecked, NotOvertaken
<1>7. QED
  BY <1>1, <1>2, <1>3, <1>5, <1>6

\* A shutdown looks for other admissions.
LEMMA CheckAdmissionStep ==
  ASSUME IInv, NEW p \in Admins, CheckAdmission(p)
  PROVE  IInv'
<1> USE DEF IInv, CheckAdmission, Inside, To, Swept
<1>1. TypeOK'
  BY DEF TypeOK
<1>2. ShapeInv'
  <2>1. RoleInv'
    BY DEF TypeOK, RoleInv
  <2>2. PlaceInv'
    <3>1. ASSUME NEW q \in Procs, q # p
          PROVE  Place(q)'
      BY <3>1 DEF TypeOK, PlaceInv, Place, Wanted
    <3>2. Place(p)'
      BY DEF TypeOK, RoleInv, PlaceInv, Place, Wanted
    <3>3. QED
      BY <3>1, <3>2 DEF PlaceInv
  <2>3. TookInv'
    BY DEF TypeOK, TookInv
  <2>4. QED
    BY <2>1, <2>2, <2>3
<1>3. OwnerInv'
  BY DEF TypeOK, RoleInv, PlaceInv, Place, Wanted, OwnerInv, Solid, Owns
<1>4. ASSUME pauses' = 0
      PROVE  pauses = 0 /\ HandInv /\ FenceInv
  BY <1>4 DEF TypeOK
<1>5. ASSUME pauses' = 0
      PROVE  HandInv'
  BY <1>4, <1>5 DEF TypeOK, PlaceInv, Place, TookInv, HandInv
<1>6. ASSUME pauses' = 0
      PROVE  FenceInv'
  <2>1. HeldFresh'
    <3>0. /\ alive' = alive /\ late' = late /\ known' = known
          /\ \A q \in Admins : q # p => /\ pc'[q] = pc[q] /\ op'[q] = op[q]
                                        /\ result'[q] = result[q] /\ Holding(q)' = Holding(q)
      BY DEF TypeOK, Holding
    <3>1. ~Holding(p)' /\ ~(op'[p] = "acquire" /\ pc'[p] = "leaving" /\ result'[p] = "ok")
      <4>1. op'[p] = "acquire" /\ ~Holding(p)' /\ result'[p] = "ok" => pc'[p] = "checked"
        BY DEF TypeOK, Holding
      <4>2. QED
        BY <4>1 DEF TypeOK, Holding
    <3>2. ASSUME NEW a \in (Admins \cap alive) \ late,
                 Holding(a) \/ (/\ op[a] = "acquire" /\ pc[a] = "leaving"
                               /\ result[a] = "ok"),
                 NEW d \in known[a]
          PROVE  admission'[d] = Fresh(a)
      <4>1. admission[d] = Fresh(a) /\ d \in Dirs
        BY <1>4, <1>6, <3>2 DEF TypeOK, FenceInv, HeldFresh
      <4>2. Active(d)
        BY <3>2, <4>1
      <4>3. admission' = Swept(p, known[p])
        OBVIOUS
      <4>4. Swept(p, known[p])[d] = admission[d]
        BY ONLY <4>1, <4>2, SweptKeepsActive
      <4>5. QED
        BY <4>1, <4>3, <4>4
    <3>3. QED
      BY ONLY <3>0, <3>1, <3>2 DEF HeldFresh
  <2>2. ExtensionFresh'
    BY <1>4, <1>6 DEF TypeOK, RoleInv, PlaceInv, Place, Wanted, HandInv, FenceInv, Holding, HeldFresh, ExtensionFresh, AdmissionChecked, ExtensionChecked, OwnerChecked, NotOvertaken
  <2>3. AdmissionChecked'
    BY <1>4, <1>6 DEF TypeOK, RoleInv, PlaceInv, Place, Wanted, HandInv, FenceInv, Holding, HeldFresh, ExtensionFresh, AdmissionChecked, ExtensionChecked, OwnerChecked, NotOvertaken
  <2>4. ExtensionChecked'
    BY <1>4, <1>6 DEF TypeOK, RoleInv, PlaceInv, Place, Wanted, HandInv, FenceInv, Holding, HeldFresh, ExtensionFresh, AdmissionChecked, ExtensionChecked, OwnerChecked, NotOvertaken
  <2>5. OwnerChecked'
    BY <1>4, <1>6 DEF TypeOK, RoleInv, PlaceInv, Place, Wanted, HandInv, FenceInv, Holding, HeldFresh, ExtensionFresh, AdmissionChecked, ExtensionChecked, OwnerChecked, NotOvertaken
  <2>6. NotOvertaken'
    BY <1>4, <1>6 DEF TypeOK, RoleInv, PlaceInv, Place, Wanted, HandInv, FenceInv, Holding, HeldFresh, ExtensionFresh, AdmissionChecked, ExtensionChecked, OwnerChecked, NotOvertaken
  <2>7. QED
    BY <2>1, <2>2, <2>3, <2>4, <2>5, <2>6 DEF FenceInv
<1>7. QED
  BY <1>1, <1>2, <1>3, <1>5, <1>6

\* A renewal finds its record.
LEMMA CheckPrimaryStep ==
  ASSUME IInv, NEW p \in Admins, CheckPrimary(p)
  PROVE  IInv'
<1> USE DEF IInv, CheckPrimary, Inside, To
<1>1. TypeOK'
  BY DEF TypeOK
<1>2. ShapeInv'
  <2>1. RoleInv'
    BY DEF TypeOK, RoleInv
  <2>2. PlaceInv'
    <3>1. ASSUME NEW q \in Procs, q # p
          PROVE  Place(q)'
      BY <3>1 DEF TypeOK, PlaceInv, Place, Wanted
    <3>2. Place(p)'
      BY DEF TypeOK, RoleInv, PlaceInv, Place, Wanted
    <3>3. QED
      BY <3>1, <3>2 DEF PlaceInv
  <2>3. TookInv'
    BY DEF TypeOK, TookInv
  <2>4. QED
    BY <2>1, <2>2, <2>3
<1>3. OwnerInv'
  BY DEF TypeOK, RoleInv, PlaceInv, Place, Wanted, OwnerInv, Solid, Owns
<1>4. ASSUME pauses' = 0
      PROVE  pauses = 0 /\ HandInv /\ FenceInv
  BY <1>4 DEF TypeOK
<1>5. ASSUME pauses' = 0
      PROVE  HandInv'
  BY <1>4, <1>5 DEF TypeOK, PlaceInv, Place, TookInv, HandInv
<1>6. ASSUME pauses' = 0
      PROVE  FenceInv'
  BY <1>4, <1>6 DEF TypeOK, RoleInv, PlaceInv, Place, Wanted, HandInv, FenceInv, Holding,
                    HeldFresh, ExtensionFresh, AdmissionChecked, ExtensionChecked,
                    OwnerChecked, NotOvertaken
<1>7. QED
  BY <1>1, <1>2, <1>3, <1>5, <1>6

\* A renewal does not.
LEMMA LosePrimaryStep ==
  ASSUME IInv, NEW p \in Admins, LosePrimary(p)
  PROVE  IInv'
<1> USE DEF IInv, LosePrimary, Inside, To
<1>1. TypeOK'
  BY DEF TypeOK
<1>2. ShapeInv'
  <2>1. RoleInv'
    BY DEF TypeOK, RoleInv
  <2>2. PlaceInv'
    <3>1. ASSUME NEW q \in Procs, q # p
          PROVE  Place(q)'
      BY <3>1 DEF TypeOK, PlaceInv, Place, Wanted
    <3>2. Place(p)'
      BY DEF TypeOK, RoleInv, PlaceInv, Place, Wanted
    <3>3. QED
      BY <3>1, <3>2 DEF PlaceInv
  <2>3. TookInv'
    BY DEF TypeOK, TookInv
  <2>4. QED
    BY <2>1, <2>2, <2>3
<1>3. OwnerInv'
  BY DEF TypeOK, RoleInv, PlaceInv, Place, Wanted, OwnerInv, Solid, Owns
<1>4. ASSUME pauses' = 0
      PROVE  pauses = 0 /\ HandInv /\ FenceInv
  BY <1>4 DEF TypeOK
<1>5. ASSUME pauses' = 0
      PROVE  HandInv'
  BY <1>4, <1>5 DEF TypeOK, PlaceInv, Place, TookInv, HandInv
<1>6. ASSUME pauses' = 0
      PROVE  FenceInv'
  BY <1>4, <1>6 DEF TypeOK, RoleInv, PlaceInv, Place, Wanted, HandInv, FenceInv, Holding,
                    HeldFresh, ExtensionFresh, AdmissionChecked, ExtensionChecked,
                    OwnerChecked, NotOvertaken
<1>7. QED
  BY <1>1, <1>2, <1>3, <1>5, <1>6

\* An extension looks at every registry.
LEMMA CheckExtensionStep ==
  ASSUME IInv, NEW p \in Admins, CheckExtension(p)
  PROVE  IInv'
<1> USE DEF IInv, CheckExtension, Inside, To
<1>1. TypeOK'
  BY DEF TypeOK
<1>2. ShapeInv'
  <2>1. RoleInv'
    BY DEF TypeOK, RoleInv
  <2>2. PlaceInv'
    <3>1. ASSUME NEW q \in Procs, q # p
          PROVE  Place(q)'
      BY <3>1 DEF TypeOK, PlaceInv, Place, Wanted
    <3>2. Place(p)'
      BY DEF TypeOK, RoleInv, PlaceInv, Place, Wanted
    <3>3. QED
      BY <3>1, <3>2 DEF PlaceInv
  <2>3. TookInv'
    BY DEF TypeOK, TookInv
  <2>4. QED
    BY <2>1, <2>2, <2>3
<1>3. OwnerInv'
  BY DEF TypeOK, RoleInv, PlaceInv, Place, Wanted, OwnerInv, Solid, Owns
<1>4. ASSUME pauses' = 0
      PROVE  pauses = 0 /\ HandInv /\ FenceInv
  BY <1>4 DEF TypeOK
<1>5. ASSUME pauses' = 0
      PROVE  HandInv'
  BY <1>4, <1>5 DEF TypeOK, PlaceInv, Place, TookInv, HandInv
<1>6. ASSUME pauses' = 0
      PROVE  FenceInv'
  <2>1. HeldFresh'
    BY <1>4, <1>6 DEF TypeOK, RoleInv, PlaceInv, Place, Wanted, HandInv, FenceInv, Holding, HeldFresh, ExtensionFresh, AdmissionChecked, ExtensionChecked, OwnerChecked, NotOvertaken
  <2>2. ExtensionFresh'
    BY <1>4, <1>6 DEF TypeOK, RoleInv, PlaceInv, Place, Wanted, HandInv, FenceInv, Holding, HeldFresh, ExtensionFresh, AdmissionChecked, ExtensionChecked, OwnerChecked, NotOvertaken
  <2>3. AdmissionChecked'
    BY <1>4, <1>6 DEF TypeOK, RoleInv, PlaceInv, Place, Wanted, HandInv, FenceInv, Holding, HeldFresh, ExtensionFresh, AdmissionChecked, ExtensionChecked, OwnerChecked, NotOvertaken
  <2>4. ExtensionChecked'
    BY <1>4, <1>6 DEF TypeOK, RoleInv, PlaceInv, Place, Wanted, HandInv, FenceInv, Holding, HeldFresh, ExtensionFresh, AdmissionChecked, ExtensionChecked, OwnerChecked, NotOvertaken
  <2>5. OwnerChecked'
    BY <1>4, <1>6 DEF TypeOK, RoleInv, PlaceInv, Place, Wanted, HandInv, FenceInv, Holding, HeldFresh, ExtensionFresh, AdmissionChecked, ExtensionChecked, OwnerChecked, NotOvertaken
  <2>6. NotOvertaken'
    BY <1>4, <1>6 DEF TypeOK, RoleInv, PlaceInv, Place, Wanted, HandInv, FenceInv, Holding, HeldFresh, ExtensionFresh, AdmissionChecked, ExtensionChecked, OwnerChecked, NotOvertaken
  <2>7. QED
    BY <2>1, <2>2, <2>3, <2>4, <2>5, <2>6 DEF FenceInv
<1>7. QED
  BY <1>1, <1>2, <1>3, <1>5, <1>6

\* The admission is written.
LEMMA WriteAdmissionStep ==
  ASSUME IInv, NEW p \in Admins, WriteAdmission(p)
  PROVE  IInv'
<1> USE DEF IInv, WriteAdmission, To
<1>1. TypeOK'
  BY DEF TypeOK
<1>2. ShapeInv'
  <2>1. RoleInv'
    BY DEF TypeOK, RoleInv
  <2>2. PlaceInv'
    <3>1. ASSUME NEW q \in Procs, q # p
          PROVE  Place(q)'
      BY <3>1 DEF TypeOK, PlaceInv, Place, Wanted
    <3>2. Place(p)'
      BY DEF TypeOK, RoleInv, PlaceInv, Place, Wanted
    <3>3. QED
      BY <3>1, <3>2 DEF PlaceInv
  <2>3. TookInv'
    BY DEF TypeOK, TookInv
  <2>4. QED
    BY <2>1, <2>2, <2>3
<1>3. OwnerInv'
  BY DEF TypeOK, RoleInv, PlaceInv, Place, Wanted, OwnerInv, Solid, Owns
<1>4. ASSUME pauses' = 0
      PROVE  pauses = 0 /\ HandInv /\ FenceInv
  BY <1>4 DEF TypeOK
<1>5. ASSUME pauses' = 0
      PROVE  HandInv'
  BY <1>4, <1>5 DEF TypeOK, PlaceInv, Place, TookInv, HandInv
<1>6. ASSUME pauses' = 0
      PROVE  FenceInv'
  <2>1. HeldFresh'
    <3>1. SUFFICES ASSUME NEW a \in (Admins \cap alive) \ late,
                          (Holding(a) \/ (/\ op[a] = "acquire" /\ pc[a] = "leaving"
                                         /\ result[a] = "ok"))',
                          NEW d \in known[a]
                   PROVE  admission'[d] = Fresh(a)
      BY DEF HeldFresh
    <3>2. d \in Dirs
      BY DEF TypeOK
    <3>3. CASE a = p
      <4>1. op[p] = "renew" => \A e \in Wanted(p) : admission[e].by = p
        <5>1. ASSUME op[p] = "renew"
              PROVE  Holding(p) /\ p \in (Admins \cap alive) \ late /\ Wanted(p) = known[p]
          BY <3>1, <3>3, <5>1 DEF Holding, Wanted
        <5>2. HeldFresh
          BY <1>4, <1>6 DEF FenceInv
        <5>3. ASSUME op[p] = "renew", NEW e \in Wanted(p)
              PROVE  admission[e].by = p
          <6>1. Holding(p) /\ p \in (Admins \cap alive) \ late /\ e \in known[p]
            BY <5>1, <5>3
          <6>2. admission[e] = [by |-> p, fresh |-> TRUE]
            BY <5>2, <6>1 DEF HeldFresh
          <6>3. QED
            BY <6>2
        <5>4. QED
          BY <5>3
      <4>2. d \in Wanted(p)
        BY <3>3 DEF Wanted
      <4>3. QED
        BY <3>2, <3>3, <4>1, <4>2
    <3>4. CASE a # p
      <4>1. "discovery" \in mine[p] /\ "discovery" \in Wanted(p) /\ "registry" \in Wanted(p)
        BY DEF TypeOK, RoleInv, PlaceInv, Place, Wanted
      <4>2. mine[a] = {}
        BY <1>4, <1>6, <4>1, <3>4 DEF HandInv, RoleInv, PlaceInv, Place, Wanted
      <4>3. Holding(a)
        BY <3>1, <3>4, <4>2 DEF TypeOK, PlaceInv, Place, Holding
      <4>4. \A e \in known[a] : admission[e] = Fresh(a)
        BY <1>4, <1>6, <4>3 DEF FenceInv, HeldFresh
      <4>5. admission["discovery"] = Fresh(a) /\ admission["registry"] = Fresh(a)
        BY <4>4 DEF RoleInv
      <4>6. op[p] = "renew"
        BY <1>4, <1>6, <3>4, <4>5 DEF TypeOK, RoleInv, PlaceInv, Place, Wanted, FenceInv,
              AdmissionChecked, ExtensionChecked
      <4>7. admission' = admission
        <5>1. ReadOrder(p)["registry"] = 0 /\ \A e \in Dirs : ReadOrder(p)[e] \in Nat
          BY DEF ReadOrder
        <5>2. admission["registry"].by \notin {p, Nobody}
          BY <3>4, <4>5
        <5>3. \A e \in Wanted(p) : ~(ReadOrder(p)["registry"] > ReadOrder(p)[e])
          BY <5>1 DEF TypeOK, Wanted
        <5>4. admission' = [e \in Dirs |-> admission[e]]
          BY <4>1, <4>6, <5>2, <5>3
        <5>5. QED
          BY <5>4 DEF TypeOK
      <4>8. QED
        BY <4>4, <4>7
    <3>5. QED
      BY <3>3, <3>4
  <2>2. ExtensionFresh'
    BY <1>4, <1>6 DEF TypeOK, RoleInv, PlaceInv, Place, Wanted, HandInv, FenceInv, Holding, HeldFresh, ExtensionFresh, AdmissionChecked, ExtensionChecked, OwnerChecked, NotOvertaken
  <2>3. AdmissionChecked'
    BY <1>4, <1>6 DEF TypeOK, RoleInv, PlaceInv, Place, Wanted, HandInv, FenceInv, Holding, HeldFresh, ExtensionFresh, AdmissionChecked, ExtensionChecked, OwnerChecked, NotOvertaken
  <2>4. ExtensionChecked'
    BY <1>4, <1>6 DEF TypeOK, RoleInv, PlaceInv, Place, Wanted, HandInv, FenceInv, Holding, HeldFresh, ExtensionFresh, AdmissionChecked, ExtensionChecked, OwnerChecked, NotOvertaken
  <2>5. OwnerChecked'
    BY <1>4, <1>6 DEF TypeOK, RoleInv, PlaceInv, Place, Wanted, HandInv, FenceInv, Holding, HeldFresh, ExtensionFresh, AdmissionChecked, ExtensionChecked, OwnerChecked, NotOvertaken
  <2>6. NotOvertaken'
    BY <1>4, <1>6 DEF TypeOK, RoleInv, PlaceInv, Place, Wanted, HandInv, FenceInv, Holding, HeldFresh, ExtensionFresh, AdmissionChecked, ExtensionChecked, OwnerChecked, NotOvertaken
  <2>7. QED
    BY <2>1, <2>2, <2>3, <2>4, <2>5, <2>6 DEF FenceInv
<1>7. QED
  BY <1>1, <1>2, <1>3, <1>5, <1>6

\* The admission is removed.
LEMMA RemoveAdmissionStep ==
  ASSUME IInv, NEW p \in Admins, RemoveAdmission(p)
  PROVE  IInv'
<1> USE DEF IInv, RemoveAdmission, Inside, To
<1>1. TypeOK'
  BY DEF TypeOK
<1>2. ShapeInv'
  <2>1. RoleInv'
    BY DEF TypeOK, RoleInv
  <2>2. PlaceInv'
    <3>1. ASSUME NEW q \in Procs, q # p
          PROVE  Place(q)'
      BY <3>1 DEF TypeOK, PlaceInv, Place, Wanted
    <3>2. Place(p)'
      BY DEF TypeOK, RoleInv, PlaceInv, Place, Wanted
    <3>3. QED
      BY <3>1, <3>2 DEF PlaceInv
  <2>3. TookInv'
    BY DEF TypeOK, TookInv
  <2>4. QED
    BY <2>1, <2>2, <2>3
<1>3. OwnerInv'
  BY DEF TypeOK, RoleInv, PlaceInv, Place, Wanted, OwnerInv, Solid, Owns
<1>4. ASSUME pauses' = 0
      PROVE  pauses = 0 /\ HandInv /\ FenceInv
  BY <1>4 DEF TypeOK
<1>5. ASSUME pauses' = 0
      PROVE  HandInv'
  BY <1>4, <1>5 DEF TypeOK, PlaceInv, Place, TookInv, HandInv
<1>6. ASSUME pauses' = 0
      PROVE  FenceInv'
  BY <1>4, <1>6 DEF TypeOK, RoleInv, PlaceInv, Place, Wanted, HandInv, FenceInv, Holding,
                    HeldFresh, ExtensionFresh, AdmissionChecked, ExtensionChecked,
                    OwnerChecked, NotOvertaken
<1>7. QED
  BY <1>1, <1>2, <1>3, <1>5, <1>6

\* An admission elapses.
LEMMA ElapseStep ==
  ASSUME IInv, NEW p \in Admins, Elapse(p)
  PROVE  IInv'
<1> USE DEF IInv, Elapse
<1>1. TypeOK'
  BY DEF TypeOK
<1>2. ShapeInv'
  <2>1. RoleInv'
    BY DEF TypeOK, RoleInv
  <2>2. PlaceInv'
    <3>1. ASSUME NEW q \in Procs, q # p
          PROVE  Place(q)'
      BY <3>1 DEF TypeOK, PlaceInv, Place, Wanted
    <3>2. Place(p)'
      BY DEF TypeOK, RoleInv, PlaceInv, Place, Wanted
    <3>3. QED
      BY <3>1, <3>2 DEF PlaceInv
  <2>3. TookInv'
    BY DEF TypeOK, TookInv
  <2>4. QED
    BY <2>1, <2>2, <2>3
<1>3. OwnerInv'
  BY DEF TypeOK, RoleInv, PlaceInv, Place, Wanted, OwnerInv, Solid, Owns
<1>4. ASSUME pauses' = 0
      PROVE  pauses = 0 /\ HandInv /\ FenceInv
  BY <1>4 DEF TypeOK
<1>5. ASSUME pauses' = 0
      PROVE  HandInv'
  BY <1>4, <1>5 DEF TypeOK, PlaceInv, Place, TookInv, HandInv
<1>6. ASSUME pauses' = 0
      PROVE  FenceInv'
  BY <1>4, <1>6 DEF TypeOK, RoleInv, PlaceInv, Place, Wanted, HandInv, FenceInv, Holding,
                    HeldFresh, ExtensionFresh, AdmissionChecked, ExtensionChecked,
                    OwnerChecked, NotOvertaken
<1>7. QED
  BY <1>1, <1>2, <1>3, <1>5, <1>6

\* A process exits.
LEMMA ExitStep ==
  ASSUME IInv, NEW p \in Procs, Exit(p)
  PROVE  IInv'
<1> USE DEF IInv, Exit
<1>1. TypeOK'
  BY DEF TypeOK
<1>2. ShapeInv'
  <2>1. RoleInv'
    BY DEF TypeOK, RoleInv
  <2>2. PlaceInv'
    <3>1. ASSUME NEW q \in Procs, q # p
          PROVE  Place(q)'
      BY <3>1 DEF TypeOK, PlaceInv, Place, Wanted
    <3>2. Place(p)'
      BY DEF TypeOK, RoleInv, PlaceInv, Place, Wanted
    <3>3. QED
      BY <3>1, <3>2 DEF PlaceInv
  <2>3. TookInv'
    BY DEF TypeOK, TookInv
  <2>4. QED
    BY <2>1, <2>2, <2>3
<1>3. OwnerInv'
  BY DEF TypeOK, RoleInv, PlaceInv, Place, Wanted, OwnerInv, Solid, Owns
<1>4. ASSUME pauses' = 0
      PROVE  pauses = 0 /\ HandInv /\ FenceInv
  BY <1>4 DEF TypeOK
<1>5. ASSUME pauses' = 0
      PROVE  HandInv'
  BY <1>4, <1>5 DEF TypeOK, PlaceInv, Place, TookInv, HandInv
<1>6. ASSUME pauses' = 0
      PROVE  FenceInv'
  BY <1>4, <1>6 DEF TypeOK, RoleInv, PlaceInv, Place, Wanted, HandInv, FenceInv, Holding,
                    HeldFresh, ExtensionFresh, AdmissionChecked, ExtensionChecked,
                    OwnerChecked, NotOvertaken
<1>7. QED
  BY <1>1, <1>2, <1>3, <1>5, <1>6

---------------------------------------------------------------------------
\* Nobody has started, and no file is there.
LEMMA InitIInv == Init => IInv
<1> SUFFICES ASSUME Init PROVE IInv
  OBVIOUS
<1>1. TypeOK
  <2>1. alive \subseteq Procs /\ released \subseteq Admins /\ late \subseteq Admins
        /\ pauses \in 0..MaxPauses
    BY DEF Init
  <2>2. /\ pc \in [Procs -> PCs] /\ op \in [Procs -> Ops] /\ mine \in [Procs -> SUBSET Dirs]
        /\ result \in [Procs -> Results]
    BY DEF Init
  <2>3. /\ guard \in [Dirs -> Procs \cup {Nobody}] /\ owners \in [Dirs -> SUBSET Sups]
        /\ admission \in [Dirs -> [by : Admins \cup {Nobody}, fresh : BOOLEAN]]
    BY DEF Init
  <2>4. known \in [Admins -> SUBSET Dirs] /\ since \in [Admins -> SUBSET Sups]
    BY DEF Init
  <2>5. QED
    BY <2>1, <2>2, <2>3, <2>4 DEF TypeOK
<1>2. ShapeInv
  <2>1. RoleInv
    BY DEF Init, RoleInv
  <2>2. PlaceInv /\ TookInv
    BY DEF Init, PlaceInv, Place, TookInv
  <2>3. QED
    BY <2>1, <2>2
<1>3. OwnerInv
  BY DEF Init, OwnerInv, Solid, Owns
<1>4. HandInv /\ FenceInv
  BY DEF Init, HandInv, FenceInv, HeldFresh, ExtensionFresh, AdmissionChecked,
         ExtensionChecked, OwnerChecked, NotOvertaken, Holding
<1>5. QED
  BY <1>1, <1>2, <1>3, <1>4 DEF IInv

\* Every step, and stuttering, preserves the invariant.
LEMMA NextIInv == IInv /\ [Next]_vars => IInv'
<1> SUFFICES ASSUME IInv, [Next]_vars PROVE IInv'
  OBVIOUS
<1>1. ASSUME NEW p \in Sups, SupStep(p)
      PROVE  IInv'
  <2>1. p \in Procs
    OBVIOUS
  <2>2. QED
    BY <1>1, <2>1, AcquireStep, ReleaseOwnerStep, CheckOwnersStep, PublishStep,
       PublishFailsStep, RemoveOwnerStep DEF SupStep
<1>2. ASSUME NEW a \in Admins, AdminStep(a)
      PROVE  IInv'
  <2>1. a \in Procs
    OBVIOUS
  <2>2. QED
    BY <1>2, <2>1, AcquireStep, RenewStep, ExtendStep, CallReleaseStep, ReleaseAdmissionStep,
       CheckAdmissionStep, CheckPrimaryStep, LosePrimaryStep, CheckExtensionStep,
       WriteAdmissionStep, RemoveAdmissionStep, ElapseStep DEF AdminStep
<1>3. ASSUME NEW p \in Procs, GuardStep(p)
      PROVE  IInv'
  BY <1>3, LockStep, LeaveStep, GiveUpStep, ExitStep DEF GuardStep
<1>4. CASE UNCHANGED vars
  BY <1>4 DEF vars, IInv, TypeOK, RoleInv, PlaceInv, Place, Wanted, TookInv, OwnerInv, Solid,
              Owns, HandInv, FenceInv, HeldFresh, ExtensionFresh, AdmissionChecked,
              ExtensionChecked, OwnerChecked, NotOvertaken, Holding
<1>5. QED
  BY <1>1, <1>2, <1>3, <1>4 DEF Next

\* The inductive invariant holds in every reachable state.
THEOREM OwnershipInvariant == Spec => []IInv
<1>1. Init => IInv
  BY InitIInv
<1>2. IInv /\ [Next]_vars => IInv'
  BY NextIInv
<1>3. QED
  BY <1>1, <1>2, PTL DEF Spec

\* Every variable keeps its type.
THEOREM OwnershipTypeOK == Spec => []TypeOK
<1>1. IInv => TypeOK
  BY DEF IInv
<1>2. QED
  BY <1>1, OwnershipInvariant, PTL

\* Two live supervisors never own one registry, however many guards are taken
\* over from stalled holders.
THEOREM OnlyOneOwner == Spec => []OneOwner
<1>1. IInv => OneOwner
  BY DEF IInv, OwnerInv, OneOwner, Solid
<1>2. QED
  BY <1>1, OwnershipInvariant, PTL

\* The record of a live owner is never swept away as a dead one's.
THEOREM OwnersKeepTheirRecord == Spec => []OwnerKeepsRecord
<1>1. IInv => OwnerKeepsRecord
  BY DEF IInv, OwnerInv, OwnerKeepsRecord, Solid
<1>2. QED
  BY <1>1, OwnershipInvariant, PTL

\* No supervisor starts under an admission that is renewed in time.
THEOREM AdmissionFences == Spec => []FencedWhileTimely
<1>1. IInv => FencedWhileTimely
  BY DEF IInv, FenceInv, NotOvertaken, FencedWhileTimely
<1>2. QED
  BY <1>1, OwnershipInvariant, PTL

---------------------------------------------------------------------------
(* Released and late admissions, as long as no guard is taken over.        *)

\* A released admission has left every registry, and a record lies only where its
\* holder will look for it.
RecordInv ==
  \A a \in Admins \cap alive :
    /\ pc[a] = "released" \/ (op[a] = "release" /\ pc[a] = "leaving" /\ result[a] = "ok")
         => \A d \in Dirs : admission[d].by # a
    /\ \A d \in Dirs : admission[d].by = a =>
         \/ d \in known[a]
         \/ op[a] = "extend" /\ pc[a] = "leaving" /\ result[a] = "ok" /\ d = "custom"

\* Who is not overtaken: the holder of the record in the default registry, and who has
\* not written one yet.
UntouchedInv ==
  \A a \in Admins \cap alive :
    /\ admission["registry"].by = a => since[a] \cap MainSups = {}
    /\ pc[a] = "idle" \/ (op[a] = "acquire" /\ Busy(a)) => since[a] = {}

\* A renewal or an extension that goes on has its record there.
PrimaryInv ==
  \A a \in Admins \cap alive :
    /\ op[a] = "renew" /\ pc[a] = "checked" => admission["registry"].by = a
    /\ op[a] \in {"renew", "extend"} /\ pc[a] = "leaving" /\ result[a] = "ok"
         => admission["registry"].by = a

\* A supervisor of that registry that starts has found or made it free of records.
ClearedInv ==
  \A p \in MainSups \cap alive :
    op[p] = "acquire" /\ (pc[p] = "checked" \/ (pc[p] = "leaving" /\ result[p] = "ok"))
      => admission["registry"].by = Nobody

AdmissionInv == pauses = 0 => RecordInv /\ UntouchedInv /\ PrimaryInv /\ ClearedInv

\* A renewal or an extension writes over its own record, a new admission was not held yet.
LEMMA WriteKeepsAdmission ==
  ASSUME IInv, AdmissionInv, NEW p \in Admins, WriteAdmission(p)
  PROVE  AdmissionInv'
<1> USE DEF WriteAdmission, To, IInv
<1>1. ASSUME pauses' = 0
      PROVE  pauses = 0 /\ HandInv /\ RecordInv /\ UntouchedInv /\ PrimaryInv /\ ClearedInv
  BY <1>1 DEF AdmissionInv, TypeOK
<1>2. ASSUME pauses' = 0
      PROVE  RecordInv'
  BY <1>1, <1>2 DEF TypeOK, RoleInv, PlaceInv, Place, Wanted, HandInv, RecordInv
<1>3. ASSUME pauses' = 0
      PROVE  UntouchedInv'
  <2>1. /\ UNCHANGED <<alive, op, since>> /\ pc' = [pc EXCEPT ![p] = "leaving"]
        /\ \A d \in Dirs : admission'[d] \in {Fresh(p), admission[d]}
    OBVIOUS
  <2>2. p \in Admins \cap alive /\ pc[p] = "checked" /\ op[p] \in {"acquire", "renew", "extend"}
    BY DEF TypeOK, PlaceInv, Place
  <2>3. since[p] \cap MainSups = {}
    <3>1. CASE op[p] = "acquire"
      BY ONLY <1>1, <1>3, <2>2, <3>1 DEF UntouchedInv, Busy
    <3>2. CASE op[p] = "renew"
      <4>1. admission["registry"].by = p
        BY ONLY <1>1, <1>3, <2>2, <3>2 DEF PrimaryInv
      <4>2. QED
        BY ONLY <1>1, <1>3, <2>2, <4>1 DEF UntouchedInv
    <3>3. CASE op[p] = "extend"
      <4>1. RoleInv /\ ExtensionChecked
        BY <1>1, <1>3 DEF FenceInv
      <4>2. admission["registry"].by = p
        BY ONLY <2>2, <3>3, <4>1 DEF RoleInv, ExtensionChecked
      <4>3. QED
        BY ONLY <1>1, <1>3, <2>2, <4>2 DEF UntouchedInv
    <3>4. QED
      BY <2>2, <3>1, <3>2, <3>3
  <2>4. QED
    BY ONLY <1>1, <1>3, <2>1, <2>2, <2>3, TypeOK DEF TypeOK, UntouchedInv, Fresh, Busy, Dirs, Procs, Sups
<1>4. ASSUME pauses' = 0
      PROVE  PrimaryInv'
  BY <1>1, <1>4 DEF TypeOK, RoleInv, PlaceInv, Place, Wanted, HandInv, PrimaryInv
<1>5. ASSUME pauses' = 0
      PROVE  ClearedInv'
  BY <1>1, <1>5 DEF TypeOK, RoleInv, PlaceInv, Place, Wanted, HandInv, ClearedInv
<1>6. QED
  BY <1>2, <1>3, <1>4, <1>5 DEF AdmissionInv

\* Every step, and stuttering, preserves them.
LEMMA NextAdmissionInv == IInv /\ AdmissionInv /\ [Next]_vars => AdmissionInv'
<1> SUFFICES ASSUME IInv, AdmissionInv, [Next]_vars PROVE AdmissionInv'
  OBVIOUS
<1> USE DEF IInv
<1>1. ASSUME NEW p \in Sups, SupStep(p)
      PROVE  AdmissionInv'
  <2> USE DEF AdmissionInv, TypeOK, RoleInv, PlaceInv, Place, Wanted, HandInv, RecordInv,
              UntouchedInv, PrimaryInv, ClearedInv, Holding
  <2>1. CASE Acquire(p)
    BY <2>1 DEF Acquire, Start
  <2>2. CASE ReleaseOwner(p)
    BY <2>2 DEF ReleaseOwner, Start
  <2>3. CASE CheckOwners(p)
    BY <2>3 DEF CheckOwners, Inside, To, Swept
  <2>4. CASE Publish(p)
    BY <2>4 DEF Publish, To
  <2>5. CASE RemoveOwner(p)
    BY <2>5 DEF RemoveOwner, Inside, To
  <2>6. CASE PublishFails(p)
    BY <2>6 DEF PublishFails, To
  <2>7. QED
    BY ONLY <1>1, <2>1, <2>2, <2>3, <2>4, <2>5, <2>6 DEF SupStep
<1>2. ASSUME NEW a \in Admins, AdminStep(a)
      PROVE  AdmissionInv'
  <2> USE DEF AdmissionInv, TypeOK, RoleInv, PlaceInv, Place, Wanted, HandInv, RecordInv,
              UntouchedInv, PrimaryInv, ClearedInv, Holding
  <2>1. CASE Acquire(a)
    BY <2>1 DEF Acquire, Start
  <2>2. CASE Renew(a)
    BY <2>2 DEF Renew, Start
  <2>3. CASE Extend(a)
    BY <2>3 DEF Extend, Start
  <2>4. CASE CallRelease(a)
    BY <2>4 DEF CallRelease
  <2>5. CASE ReleaseAdmission(a)
    BY <2>5 DEF ReleaseAdmission, Start
  <2>6. CASE CheckAdmission(a)
    BY <2>6 DEF CheckAdmission, Inside, To, Swept
  <2>7. CASE CheckPrimary(a)
    BY <2>7 DEF CheckPrimary, Inside, To
  <2>8. CASE LosePrimary(a)
    BY <2>8 DEF LosePrimary, Inside, To
  <2>9. CASE CheckExtension(a)
    BY <2>9 DEF CheckExtension, Inside, To
  <2>10. CASE RemoveAdmission(a)
    BY <2>10 DEF RemoveAdmission, Inside, To
  <2>11. CASE Elapse(a)
    BY <2>11 DEF Elapse
  <2>12. QED
    BY ONLY <1>2, <2>1, <2>2, <2>3, <2>4, <2>5, <2>6, <2>7, <2>8, <2>9, <2>10, <2>11, WriteKeepsAdmission, IInv, AdmissionInv DEF AdminStep
<1>3. ASSUME NEW p \in Procs, GuardStep(p)
      PROVE  AdmissionInv'
  <2> USE DEF AdmissionInv, TypeOK, RoleInv, PlaceInv, Place, Wanted, HandInv, RecordInv,
              UntouchedInv, PrimaryInv, ClearedInv, Holding
  <2>1. ASSUME NEW d \in Dirs, Lock(p, d)
        PROVE  AdmissionInv'
    BY <2>1 DEF Lock
  <2>2. ASSUME NEW d \in Dirs, Leave(p, d)
        PROVE  AdmissionInv'
    BY <2>2 DEF Leave, Settle, Outcome
  <2>3. ASSUME NEW d \in Dirs, GiveUp(p, d)
        PROVE  AdmissionInv'
    BY <2>3 DEF GiveUp, Settle, Outcome
  <2>4. CASE Exit(p)
    BY <2>4 DEF Exit
  <2>5. QED
    BY ONLY <1>3, <2>1, <2>2, <2>3, <2>4 DEF GuardStep
<1>4. CASE UNCHANGED vars
  BY <1>4 DEF vars, AdmissionInv, RecordInv, UntouchedInv, PrimaryInv, ClearedInv
<1>5. QED
  BY <1>1, <1>2, <1>3, <1>4 DEF Next

\* The records lie where they belong in every reachable state.
THEOREM AdmissionInvariant == Spec => []AdmissionInv
<1>1. Init => AdmissionInv
  BY DEF Init, AdmissionInv, RecordInv, UntouchedInv, PrimaryInv, ClearedInv
<1>2. IInv /\ AdmissionInv /\ [Next]_vars => AdmissionInv'
  BY NextAdmissionInv
<1>3. QED
  BY <1>1, <1>2, OwnershipInvariant, PTL DEF Spec

\* Once release() is over, no registry holds a record of that admission, whatever
\* renewal or extension it had to wait for.
THEOREM ReleaseLeavesNothing == Spec => []ReleasedIsGone
<1>1. AdmissionInv => ReleasedIsGone
  BY DEF AdmissionInv, RecordInv, ReleasedIsGone
<1>2. QED
  BY <1>1, AdmissionInvariant, PTL

\* A renewal that reports success was not overtaken by a supervisor of the default
\* registry, however late it was.
THEOREM RenewalsNotice == Spec => RenewalNotices
<1>1. IInv /\ AdmissionInv => [NotOvertakenInRenewal]_vars
  BY DEF IInv, AdmissionInv, UntouchedInv, PrimaryInv, NotOvertakenInRenewal, Confirms, Holding
<1>2. QED
  BY <1>1, OwnershipInvariant, AdmissionInvariant, PTL DEF RenewalNotices
=============================================================================
