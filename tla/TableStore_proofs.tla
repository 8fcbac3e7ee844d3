-------------------------- MODULE TableStore_proofs --------------------------
(***************************************************************************)
(* The promise of TableStore follows from its steps, for any devices,      *)
(* tables and any way of reading them: whatever implements the module      *)
(* (Session!StoreSpec, Editor!StoreSpec) keeps it.                          *)
(***************************************************************************)
EXTENDS TableStore, TLAPS

\* Devices appear, are opened and disappear, and the tables keep their type.
LEMMA TypeInit == Init => TypeOK
  BY DEF Init, TypeOK

LEMMA TypeStep == TypeOK /\ [Next]_vars => TypeOK'
<1> SUFFICES ASSUME TypeOK, [Next]_vars PROVE TypeOK'
  OBVIOUS
<1>1. CASE UNCHANGED vars
  BY <1>1 DEF vars, TypeOK
<1>2. CASE Next
  <2>1. ASSUME NEW d \in Devices, Load(d) PROVE TypeOK'
    BY <2>1 DEF Load, TypeOK
  <2>2. CASE Edit
    BY <2>2 DEF Edit, TypeOK
  <2>3. CASE Sync
    BY <2>3 DEF Sync, TypeOK
  <2>4. CASE Pretend
    BY <2>4 DEF Pretend, TypeOK
  <2>5. CASE Slip
    BY <2>5 DEF Slip, TypeOK
  <2>6. CASE Elsewhere
    BY <2>6 DEF Elsewhere, TypeOK
  <2>7. CASE Drop
    BY <2>7 DEF Drop, TypeOK
  <2>8. CASE Stop
    BY <2>8 DEF Stop, TypeOK
  <2> QED
    BY <1>2, <2>1, <2>2, <2>3, <2>4, <2>5, <2>6, <2>7, <2>8 DEF Next
<1> QED
  BY <1>1, <1>2

\* No step leaves a copy behind that counts as saved and is not what the disk holds.
LEMMA HonestStep == Honest /\ [Next]_vars => Honest'
<1> SUFFICES ASSUME Honest, [Next]_vars,
                    ~over', open' # NoDevice, ~unsaved', ~behind', ~preview'
             PROVE  InStep'
  BY DEF Honest
<1>1. CASE UNCHANGED vars
  BY <1>1 DEF vars, Honest, InStep
<1>2. CASE Next
  <2>1. ASSUME NEW d \in Devices, Load(d) PROVE InStep'
    BY <2>1 DEF Load, InStep
  <2>2. CASE Sync
    BY <2>2 DEF Sync, InStep
  <2>3. CASE Elsewhere
    BY <1>2, <2>3 DEF Elsewhere, Next, Honest, InStep
  <2>4. ~Edit
    BY DEF Edit
  <2>5. ~Pretend
    BY DEF Pretend
  <2>6. ~Slip
    BY DEF Slip
  <2>7. ~Drop
    BY DEF Drop
  <2>8. ~Stop
    BY DEF Stop
  <2> QED
    BY <1>2, <2>1, <2>2, <2>3, <2>4, <2>5, <2>6, <2>7, <2>8 DEF Next
<1> QED
  BY <1>1, <1>2

(***************************************************************************)
(* Type correctness of the promise.                                         *)
(***************************************************************************)
THEOREM TypeCorrect == Spec => []TypeOK
  BY TypeInit, TypeStep, PTL DEF Spec

(***************************************************************************)
(* No edit is forgotten: a copy with no unsaved edits is what the disk      *)
(* holds, in every front end whose steps are steps of TableStore.           *)
(***************************************************************************)
THEOREM NothingForgotten == Spec => []Honest
<1>1. Init => Honest
  BY DEF Init, Honest
<1> QED
  BY <1>1, HonestStep, PTL DEF Spec
=============================================================================
