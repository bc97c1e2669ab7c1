--------------------------- MODULE RegisterProofs ---------------------------
(***************************************************************************)
(* Theorems about RegisterAccess, for every layout of fields that do not   *)
(* overlap, every number of clients and every discipline.                  *)
(***************************************************************************)
EXTENDS RegisterAccess, TLAPS

\* A value that fits its field comes back from its raw form.
LEMMA RoundTrip ==
    ASSUME NEW r \in Registers, NEW f \in Fields(r), NEW v, Fits(r, f, v)
    PROVE  FromRaw(r, f, ToRaw(r, f, v)) = v
<1>1. Shift(r, f) \in Nat /\ Width(r, f) \in Nat /\ Mask(r, f) \subseteq 0 .. 31
  BY LayoutAssumption DEF Bits
<1>2. \A b \in v : b \in Int /\ b + Shift(r, f) \in Mask(r, f)
  BY <1>1 DEF Fits, Mask
<1>3. ToRaw(r, f, v) = {b + Shift(r, f) : b \in v}
  BY <1>1, <1>2 DEF ToRaw, Bits
<1>4. ToRaw(r, f, v) \cap Mask(r, f) = {b + Shift(r, f) : b \in v}
  BY <1>2, <1>3
<1> QED
  BY <1>1, <1>2, <1>4 DEF FromRaw

\* The raw form of a value that fits touches no bit of another field.
LEMMA RawInMask ==
    ASSUME NEW r \in Registers, NEW f \in Fields(r), NEW v, Fits(r, f, v)
    PROVE  ToRaw(r, f, v) \subseteq Mask(r, f)
<1>1. Shift(r, f) \in Nat /\ Width(r, f) \in Nat
  BY LayoutAssumption
<1> QED
  BY <1>1 DEF ToRaw, Fits, Mask

\* What a set method of one field leaves in each field.
LEMMA ModifiedFields ==
    ASSUME NEW r \in Registers, NEW f \in Fields(r), NEW v, NEW w, Fits(r, f, v)
    PROVE  Slices(r, Modified(r, f, w, v)) = [Slices(r, w) EXCEPT ![f] = v]
<1>1. FromRaw(r, f, Modified(r, f, w, v)) = v
  <2>1. Modified(r, f, w, v) \cap Mask(r, f) = ToRaw(r, f, v) \cap Mask(r, f)
    BY DEF Modified
  <2> QED
    BY <2>1, RoundTrip DEF FromRaw
<1>2. ASSUME NEW g \in Fields(r), g # f
      PROVE  FromRaw(r, g, Modified(r, f, w, v)) = FromRaw(r, g, w)
  <2>1. Mask(r, f) \cap Mask(r, g) = {}
    BY <1>2, LayoutAssumption
  <2>2. Modified(r, f, w, v) \cap Mask(r, g) = w \cap Mask(r, g)
    BY <2>1, RawInMask DEF Modified
  <2> QED
    BY <2>2 DEF FromRaw
<1> QED
  BY <1>1, <1>2 DEF Slices

\* What a whole-register set method leaves in each field.
LEMMA JoinedFields ==
    ASSUME NEW r \in Registers, NEW vs, vs = [f \in Fields(r) |-> vs[f]],
           \A f \in Fields(r) : Fits(r, f, vs[f])
    PROVE  Slices(r, Joined(r, vs)) = vs
<1>1. ASSUME NEW f \in Fields(r)
      PROVE  FromRaw(r, f, Joined(r, vs)) = vs[f]
  <2>1. \A g \in Fields(r) : g # f => ToRaw(r, g, vs[g]) \cap Mask(r, f) = {}
    BY RawInMask, LayoutAssumption
  <2>2. Joined(r, vs) \cap Mask(r, f) = ToRaw(r, f, vs[f]) \cap Mask(r, f)
    BY <2>1 DEF Joined
  <2> QED
    BY <2>2, RoundTrip DEF FromRaw
<1> QED
  BY <1>1 DEF Slices

\* A value that the setter does not complain about fits its field.
LEMMA AcceptedFits ==
    ASSUME NEW r \in Registers, NEW f \in Fields(r), NEW v,
           Typed(r, f, v), SetterAccepts(r, f, v)
    PROVE  Fits(r, f, v)
<1>1. CASE f \notin DOMAIN Methods[r].limit
  BY <1>1 DEF Typed
<1>2. CASE f \in DOMAIN Methods[r].limit
  <2> DEFINE m == Methods[r].limit[f]
  <2>1. m \subseteq 0 .. Width(r, f) - 1 /\ Width(r, f) \in Nat
    BY <1>2, RangeAssumption, LayoutAssumption DEF Fits
  <2>2. AtMost(v, m) /\ v \subseteq 0 .. 31
    BY <1>2 DEF SetterAccepts, Typed, Bits
  <2> HIDE DEF m
  <2>3. ASSUME NEW k \in m \ v, \A j \in v \ m : j < k
        PROVE  v \subseteq 0 .. Width(r, f) - 1
    BY <2>1, <2>2, <2>3
  <2> QED
    BY <2>1, <2>2, <2>3 DEF AtMost, Fits
<1> QED
  BY <1>1, <1>2

-----------------------------------------------------------------------------
(* The shape of the state, and what turn-taking gives: a client between    *)
(* its two accesses to a kept register still holds the current word.       *)
HeldOK(h) ==
    \/ h = Idle
    \/ \E r \in Registers : \E f \in Fields(r) :
         /\ Methods[r].writes
         /\ h = Pending(r, f, h.value, h.base) /\ Typed(r, f, h.value) /\ h.base \subseteq Bits

ShapeInv ==
    /\ bus = [i \in {Index(r) : r \in Registers} |-> bus[i]]
    /\ \A r \in Registers : bus[Index(r)] \subseteq Bits
    /\ held = [c \in Clients |-> held[c]]
    /\ \A c \in Clients : HeldOK(held[c])
    /\ scene \in Scenes

TurnInv == \A c \in Clients : \A r \in held[c].reg \cap scene.kept :
    /\ held[c].base = bus[Index(r)]
    /\ Fits(r, held[c].field, held[c].value)
    /\ \A d \in Clients : r \in held[d].reg => d = c

\* A pending call names one register, one of its fields and a value for it.
LEMMA PendingCall ==
    ASSUME ShapeInv, NEW c \in Clients, NEW r \in held[c].reg
    PROVE  /\ r \in Registers /\ Methods[r].writes
           /\ held[c].reg = {r} /\ held[c].field \in Fields(r)
           /\ Typed(r, held[c].field, held[c].value) /\ held[c].base \subseteq Bits
  BY DEF ShapeInv, HeldOK, Pending, Idle

\* A write of one register leaves the words of the others.
LEMMA WriteEffect ==
    ASSUME ShapeInv, NEW r \in Registers, NEW w, Write(r, w)
    PROVE  /\ bus'[Index(r)] = w
           /\ \A s \in Registers : s # r => bus'[Index(s)] = bus[Index(s)]
           /\ bus' = [i \in {Index(s) : s \in Registers} |-> bus'[i]]
<1>1. \A s \in Registers : s # r => Index(s) # Index(r)
  BY LayoutAssumption
<1> QED
  BY <1>1 DEF ShapeInv, Write

\* A method that writes a register is one of the abstract store, or concerns
\* a register that is not kept.
LEMMA WriteRefines ==
    ASSUME ShapeInv, NEW r \in Registers, NEW w, Write(r, w), scene' = scene,
           NEW new, event' = Passed(r, new),
           r \in scene.kept =>
             Slices(r, w) = [f \in Fields(r) |-> IF f \in DOMAIN new THEN new[f]
                                               ELSE Slices(r, bus[Index(r)])[f]]
    PROVE  Store!StoreNext
<1> DEFINE abs == [s \in scene.kept |-> Slices(s, bus[Index(s)])]
<1>1. scene.kept \subseteq Registers
  BY ArgsAssumption DEF ShapeInv
<1>2. \A s \in scene.kept : s # r => Slices(s, bus'[Index(s)]) = Slices(s, bus[Index(s)])
  BY <1>1, WriteEffect
<1>3. CASE r \notin scene.kept
  <2>1. abs' = abs
    BY <1>2, <1>3
  <2>2. Store!Elsewhere
    BY <1>3, <2>1 DEF Store!Elsewhere, Passed
  <2> QED
    BY <2>2 DEF Store!StoreNext
<1>4. CASE r \in scene.kept
  <2>1. Slices(r, bus'[Index(r)]) = [f \in Fields(r) |-> IF f \in DOMAIN new THEN new[f]
                                               ELSE Slices(r, bus[Index(r)])[f]]
    BY <1>4, WriteEffect
  <2>2. abs' = [abs EXCEPT ![r] = [f \in Fields(r) |-> IF f \in DOMAIN new THEN new[f]
                                               ELSE Slices(r, bus[Index(r)])[f]]]
    BY <1>2, <1>4, <2>1
  <2>3. [q \in Registers |-> Reset(q)][r] = Reset(r) /\ DOMAIN Reset(r) = Fields(r)
    BY DEF Reset
  <2>4. Store!Put(r)
    BY <1>4, <2>2, <2>3 DEF Store!Put, Passed
  <2> QED
    BY <1>4, <2>4 DEF Store!StoreNext
<1> QED
  BY <1>3, <1>4

\* Steps of one register access each, against the store of fields.
LEMMA GetRefines ==
    ASSUME ShapeInv, NEW r \in Registers, NEW vs, event' = Got(r, vs),
           \A f \in DOMAIN vs : f \in Fields(r) /\ vs[f] = FromRaw(r, f, bus[Index(r)]),
           UNCHANGED << bus, scene >>
    PROVE  Store!StoreNext
<1>1. CASE r \notin scene.kept
  BY <1>1 DEF Store!StoreNext, Store!Elsewhere, Got
<1>2. CASE r \in scene.kept
  <2>1. Store!Get(r)
    BY <1>2 DEF Store!Get, Got, Slices
  <2> QED
    BY <1>2, <2>1 DEF Store!StoreNext
<1> QED
  BY <1>1, <1>2

\* Every step of the class is a step of the store of fields.
LEMMA StepRefines ==
    ASSUME ShapeInv, TurnInv, [Next]_accessVars
    PROVE  Store!StoreNext \/ UNCHANGED Store!storeVars
<1> USE ArgsAssumption
<1>0. scene.used \subseteq Registers /\ scene.kept \subseteq Registers
  BY DEF ShapeInv
<1>1. ASSUME NEW c \in Clients, EndSet(c)
      PROVE  Store!StoreNext
  <2> DEFINE f == held[c].field
             v == held[c].value
             base == held[c].base
  <2>1. PICK r \in held[c].reg : Stored(r, f, v, base, Modified(r, f, base, v))
    BY <1>1 DEF EndSet
  <2>2. r \in Registers /\ f \in Fields(r)
    BY PendingCall
  <2>3. ASSUME r \in scene.kept
        PROVE  Slices(r, Modified(r, f, base, v)) =
                 [g \in Fields(r) |-> IF g \in DOMAIN Single(f, v) THEN Single(f, v)[g]
                                    ELSE Slices(r, bus[Index(r)])[g]]
    <3>1. base = bus[Index(r)] /\ Fits(r, f, v)
      BY <2>3 DEF TurnInv
    <3>2. Slices(r, Modified(r, f, base, v)) = [Slices(r, bus[Index(r)]) EXCEPT ![f] = v]
      BY <2>2, <3>1, ModifiedFields
    <3> QED
      BY <2>2, <3>2 DEF Slices, Single
  <2>4. Write(r, Modified(r, f, base, v)) /\ event' = Passed(r, Single(f, v)) /\ scene' = scene
    BY <1>1, <2>1 DEF Stored, EndSet
  <2> QED
    BY <2>2, <2>3, <2>4, WriteRefines
<1>2. ASSUME NEW c \in Clients, NEW r \in scene.used, GetRegister(c, r)
      PROVE  Store!StoreNext
  BY <1>0, <1>2, GetRefines DEF GetRegister, Called, Slices
<1>3. ASSUME NEW c \in Clients, NEW r \in scene.used, NEW f \in Fields(r), GetField(c, r, f)
      PROVE  Store!StoreNext
  BY <1>0, <1>3, GetRefines DEF GetField, Called, Single
<1>4. ASSUME NEW c \in Clients, NEW r \in scene.used, NEW f \in Fields(r),
             NEW v \in Args[r][f], SetOnly(c, r, f, v)
      PROVE  Store!StoreNext
  <2>1. Write(r, ToRaw(r, f, v)) /\ event' = Passed(r, Single(f, v)) /\ scene' = scene
    BY <1>4 DEF SetOnly, Stored, Called
  <2>2. ASSUME r \in scene.kept
        PROVE  Slices(r, ToRaw(r, f, v)) =
                 [g \in Fields(r) |-> IF g \in DOMAIN Single(f, v) THEN Single(f, v)[g]
                                    ELSE Slices(r, bus[Index(r)])[g]]
    <3>1. Fits(r, f, v) /\ \A g \in Fields(r) : g = f
      BY <1>4, <2>2 DEF SetOnly, Proper, Several
    <3>2. FromRaw(r, f, ToRaw(r, f, v)) = v
      BY <1>0, <3>1, RoundTrip
    <3> QED
      BY <3>1, <3>2 DEF Slices, Single
  <2> QED
    BY <1>0, <2>1, <2>2, WriteRefines
<1>5. ASSUME NEW c \in Clients, NEW r \in scene.used, NEW f \in Fields(r),
             NEW v \in Args[r][f], BeginSet(c, r, f, v)
      PROVE  Store!StoreNext
  BY <1>5 DEF BeginSet, Called, NoEvent, Store!StoreNext, Store!Elsewhere
<1>6. ASSUME NEW c \in Clients, NEW r \in scene.used, NEW vs \in WholeArgs[r],
             SetRegister(c, r, vs)
      PROVE  Store!StoreNext
  <2>1. Write(r, Joined(r, vs)) /\ event' = Passed(r, vs) /\ scene' = scene
    BY <1>6 DEF SetRegister, Called
  <2>2. vs = [f \in Fields(r) |-> vs[f]]
    BY <1>0
  <2>3. ASSUME r \in scene.kept
        PROVE  Slices(r, Joined(r, vs)) = [f \in Fields(r) |-> IF f \in DOMAIN vs THEN vs[f]
                                              ELSE Slices(r, bus[Index(r)])[f]]
    <3>1. \A f \in Fields(r) : Fits(r, f, vs[f])
      BY <1>6, <2>3 DEF SetRegister, Proper
    <3>2. Slices(r, Joined(r, vs)) = vs
      BY <1>0, <2>2, <3>1, JoinedFields
    <3>3. DOMAIN vs = Fields(r)
      BY <2>2
    <3> QED
      BY <2>2, <3>2, <3>3
  <2> QED
    BY <1>0, <2>1, <2>3, WriteRefines
<1>7. ASSUME NEW c \in Clients, NEW r \in scene.used, NEW w \in RawArgs[r], SetRaw(c, r, w)
      PROVE  Store!StoreNext
  <2>1. Write(r, w) /\ event' = Passed(r, Slices(r, w)) /\ scene' = scene
    BY <1>7 DEF SetRaw, Called
  <2>2. Slices(r, w) = [f \in Fields(r) |-> IF f \in DOMAIN Slices(r, w) THEN Slices(r, w)[f]
                                          ELSE Slices(r, bus[Index(r)])[f]]
    BY DEF Slices
  <2> QED
    BY <1>0, <2>1, <2>2, WriteRefines
<1>8. ASSUME NEW r \in scene.used, CoreWrites(r)
      PROVE  Store!StoreNext \/ UNCHANGED Store!storeVars
  <2> DEFINE abs == [s \in scene.kept |-> Slices(s, bus[Index(s)])]
  <2>1. PICK w \in Presented[r] : Write(r, w)
    BY <1>8 DEF CoreWrites
  <2>2. \A s \in scene.kept : s # r => Slices(s, bus'[Index(s)]) = Slices(s, bus[Index(s)])
    BY <1>0, <2>1, WriteEffect
  <2>3. UNCHANGED << scene, event >>
    BY <1>8 DEF CoreWrites
  <2>4. CASE r \in scene.kept
    <3>1. abs' = [abs EXCEPT ![r] = abs'[r]]
      BY <2>2, <2>3, <2>4
    <3>2. Store!Present(r)
      BY <2>3, <3>1 DEF Store!Present
    <3>3. r \in {q \in Registers : ~Methods[q].writes}
      BY <1>0, <1>8 DEF CoreWrites
    <3> QED
      BY <2>4, <3>2, <3>3 DEF Store!StoreNext
  <2>5. CASE r \notin scene.kept
    <3>1. abs' = abs
      BY <2>2, <2>3, <2>5
    <3> QED
      BY <2>3, <3>1 DEF Store!storeVars
  <2> QED
    BY <2>4, <2>5
<1>9. CASE UNCHANGED accessVars
  BY <1>9 DEF accessVars, Store!storeVars
<1> QED
  BY <1>1, <1>2, <1>3, <1>4, <1>5, <1>6, <1>7, <1>8, <1>9 DEF Next, Method

-----------------------------------------------------------------------------
(* The two invariants are inductive.                                       *)

\* What is written stays within the 32 bits of a word.
LEMMA ModifiedBits ==
    ASSUME NEW r \in Registers, NEW f, NEW w, NEW v, w \subseteq Bits
    PROVE  Modified(r, f, w, v) \subseteq Bits
  BY DEF ToRaw, Modified

\* Both hold after reset.
LEMMA Initially == Init => ShapeInv /\ TurnInv
<1> SUFFICES ASSUME Init PROVE ShapeInv /\ TurnInv
  OBVIOUS
<1>1. ASSUME NEW r \in Registers
      PROVE  bus[Index(r)] = Joined(r, Reset(r)) /\ bus[Index(r)] \subseteq Bits
  <2> DEFINE s == CHOOSE q \in Registers : Index(q) = Index(r)
  <2>1. s = r
    BY LayoutAssumption
  <2>2. bus[Index(r)] = Joined(s, Reset(s))
    BY DEF Init
  <2>3. bus[Index(r)] = Joined(r, Reset(r))
    BY <2>1, <2>2
  <2>4. Joined(r, Reset(r)) \subseteq Bits
    BY DEF Joined, ToRaw
  <2> QED
    BY <2>3, <2>4
<1> QED
  BY <1>1 DEF Init, ShapeInv, TurnInv, HeldOK, Idle

\* Every written word is a word, and no step breaks the shape.
LEMMA ShapeStep == ShapeInv /\ [Next]_accessVars => ShapeInv'
<1> SUFFICES ASSUME ShapeInv, [Next]_accessVars PROVE ShapeInv'
  OBVIOUS
<1> USE ArgsAssumption
<1>0. scene.used \subseteq Registers /\ scene \in Scenes
  BY DEF ShapeInv
<1>a. ASSUME NEW r \in Registers, NEW w, Write(r, w), w \subseteq Bits, UNCHANGED scene,
             held' = [c \in Clients |-> held'[c]], \A c \in Clients : HeldOK(held'[c])
      PROVE  ShapeInv'
  <2>1. \A s \in Registers : bus'[Index(s)] \subseteq Bits
    <3>1. bus'[Index(r)] = w /\ \A s \in Registers : s # r => bus'[Index(s)] = bus[Index(s)]
      BY <1>a, WriteEffect
    <3>2. \A s \in Registers : bus[Index(s)] \subseteq Bits
      BY DEF ShapeInv
    <3> QED
      BY <1>a, <3>1, <3>2
  <2>2. bus' = [i \in {Index(q) : q \in Registers} |-> bus'[i]]
    BY <1>a, WriteEffect
  <2>3. scene' \in Scenes
    BY <1>a DEF ShapeInv
  <2> QED
    BY <1>a, <2>1, <2>2, <2>3 DEF ShapeInv
<1>b. ASSUME UNCHANGED held
      PROVE  held' = [c \in Clients |-> held'[c]] /\ \A c \in Clients : HeldOK(held'[c])
  BY <1>b DEF ShapeInv
<1>c. ASSUME UNCHANGED << bus, held, scene >>
      PROVE  ShapeInv'
  BY <1>c DEF ShapeInv
<1>1. ASSUME NEW c \in Clients, EndSet(c)
      PROVE  ShapeInv'
  <2>1. PICK r \in held[c].reg :
          Write(r, Modified(r, held[c].field, held[c].base, held[c].value))
    BY <1>1 DEF EndSet, Stored
  <2>2. r \in Registers /\ Modified(r, held[c].field, held[c].base, held[c].value) \subseteq Bits
    BY PendingCall, ModifiedBits
  <2>3. held' = [d \in Clients |-> held'[d]] /\ \A d \in Clients : HeldOK(held'[d])
    <3>1. held' = [held EXCEPT ![c] = Idle] /\ held = [d \in Clients |-> held[d]]
      BY <1>1 DEF EndSet, ShapeInv
    <3>2. \A d \in Clients : held'[d] = IF d = c THEN Idle ELSE held[d]
      BY <3>1
    <3>3. HeldOK(Idle) /\ \A d \in Clients : HeldOK(held[d])
      BY DEF HeldOK, ShapeInv
    <3> QED
      BY <3>1, <3>2, <3>3
  <2> QED
    BY <1>1, <1>a, <2>1, <2>2, <2>3 DEF EndSet
<1>2. ASSUME NEW c \in Clients, NEW r \in scene.used, GetRegister(c, r)
      PROVE  ShapeInv'
  BY <1>2, <1>c DEF GetRegister, Called
<1>3. ASSUME NEW c \in Clients, NEW r \in scene.used, NEW f \in Fields(r), GetField(c, r, f)
      PROVE  ShapeInv'
  BY <1>3, <1>c DEF GetField, Called
<1>4. ASSUME NEW c \in Clients, NEW r \in scene.used, NEW f \in Fields(r),
             NEW v \in Args[r][f], SetOnly(c, r, f, v)
      PROVE  ShapeInv'
  <2>1. ToRaw(r, f, v) \subseteq Bits
    BY DEF ToRaw
  <2> QED
    BY <1>0, <1>4, <1>a, <1>b, <2>1 DEF SetOnly, Stored, Called
<1>5. ASSUME NEW c \in Clients, NEW r \in scene.used, NEW f \in Fields(r),
             NEW v \in Args[r][f], BeginSet(c, r, f, v)
      PROVE  ShapeInv'
  <2>1. Typed(r, f, v) /\ bus[Index(r)] \subseteq Bits /\ r \in Registers /\ Methods[r].writes
    BY <1>0, <1>5 DEF ShapeInv, BeginSet
  <2>2. HeldOK(Pending(r, f, v, bus[Index(r)]))
    BY <2>1 DEF HeldOK, Pending
  <2>3. held' = [d \in Clients |-> IF d = c THEN Pending(r, f, v, bus[Index(r)]) ELSE held[d]]
    BY <1>5 DEF BeginSet, ShapeInv
  <2> QED
    BY <1>5, <2>2, <2>3 DEF BeginSet, Called, ShapeInv
<1>6. ASSUME NEW c \in Clients, NEW r \in scene.used, NEW vs \in WholeArgs[r],
             SetRegister(c, r, vs)
      PROVE  ShapeInv'
  <2>1. Joined(r, vs) \subseteq Bits
    BY DEF Joined, ToRaw
  <2> QED
    BY <1>0, <1>6, <1>a, <1>b, <2>1 DEF SetRegister, Called
<1>7. ASSUME NEW c \in Clients, NEW r \in scene.used, NEW w \in RawArgs[r], SetRaw(c, r, w)
      PROVE  ShapeInv'
  BY <1>0, <1>7, <1>a, <1>b DEF SetRaw, Called
<1>8. ASSUME NEW r \in scene.used, CoreWrites(r)
      PROVE  ShapeInv'
  BY <1>0, <1>8, <1>a, <1>b DEF CoreWrites
<1>9. CASE UNCHANGED accessVars
  BY <1>9, <1>c DEF accessVars
<1> QED
  BY <1>1, <1>2, <1>3, <1>4, <1>5, <1>6, <1>7, <1>8, <1>9 DEF Next, Method

\* A step that writes no register leaves held words current; one that writes
\* a kept register is taken in turn.
LEMMA TurnStep == ShapeInv /\ TurnInv /\ [Next]_accessVars => TurnInv'
<1> SUFFICES ASSUME ShapeInv, TurnInv, [Next]_accessVars PROVE TurnInv'
  OBVIOUS
<1> USE ArgsAssumption
<1>0. scene.used \subseteq Registers
  BY DEF ShapeInv
<1>a. ASSUME NEW r \in Registers, NEW w, Write(r, w), Turn(r), UNCHANGED << held, scene >>
      PROVE  TurnInv'
  <2>1. ASSUME NEW c \in Clients, NEW s \in held[c].reg \cap scene.kept
        PROVE  s \in Registers /\ s # r
    BY <1>a, PendingCall DEF Turn
  <2>2. ASSUME NEW c \in Clients, NEW s \in held[c].reg \cap scene.kept
        PROVE  bus'[Index(s)] = bus[Index(s)]
    BY <1>a, <2>1, WriteEffect
  <2> QED
    BY <1>a, <2>2 DEF TurnInv
<1>b. ASSUME UNCHANGED << bus, held, scene >>
      PROVE  TurnInv'
  BY <1>b DEF TurnInv
<1>1. ASSUME NEW c \in Clients, EndSet(c)
      PROVE  TurnInv'
  <2>1. PICK r \in held[c].reg :
          Write(r, Modified(r, held[c].field, held[c].base, held[c].value))
    BY <1>1 DEF EndSet, Stored
  <2>2. r \in Registers
    BY PendingCall
  <2>3. \A d \in Clients : held'[d] = IF d = c THEN Idle ELSE held[d]
    BY <1>1 DEF EndSet, ShapeInv
  <2>4. scene' = scene
    BY <1>1 DEF EndSet
  <2>5. ASSUME NEW d \in Clients, NEW s \in held'[d].reg \cap scene'.kept
        PROVE  d # c /\ held'[d] = held[d] /\ s \in Registers /\ s # r /\ s \in held[d].reg \cap scene.kept
    <3>1. d # c
      BY <2>3, <2>5 DEF Idle
    <3>2. s \in held[d].reg /\ s \in scene.kept /\ held'[d] = held[d]
      BY <2>3, <2>4, <2>5, <3>1
    <3>3. s # r
      BY <2>1, <3>1, <3>2 DEF TurnInv
    <3> QED
      BY <3>1, <3>2, <3>3, PendingCall
  <2>6. ASSUME NEW d \in Clients, NEW s \in held'[d].reg \cap scene'.kept
        PROVE  bus'[Index(s)] = bus[Index(s)]
    BY <2>1, <2>2, <2>5, <2>6, WriteEffect
  <2>7. ASSUME NEW d \in Clients, NEW s \in held'[d].reg \cap scene'.kept, NEW e \in Clients,
               s \in held'[e].reg
        PROVE  e = d
    <3>1. s \in held[e].reg
      BY <2>3, <2>7 DEF Idle
    <3> QED
      BY <2>5, <2>7, <3>1 DEF TurnInv
  <2> QED
    BY <2>5, <2>6, <2>7 DEF TurnInv
<1>2. ASSUME NEW c \in Clients, NEW r \in scene.used, GetRegister(c, r)
      PROVE  TurnInv'
  BY <1>2, <1>b DEF GetRegister, Called
<1>3. ASSUME NEW c \in Clients, NEW r \in scene.used, NEW f \in Fields(r), GetField(c, r, f)
      PROVE  TurnInv'
  BY <1>3, <1>b DEF GetField, Called
<1>4. ASSUME NEW c \in Clients, NEW r \in scene.used, NEW f \in Fields(r),
             NEW v \in Args[r][f], SetOnly(c, r, f, v)
      PROVE  TurnInv'
  BY <1>0, <1>4, <1>a DEF SetOnly, Stored, Called
<1>5. ASSUME NEW c \in Clients, NEW r \in scene.used, NEW f \in Fields(r),
             NEW v \in Args[r][f], BeginSet(c, r, f, v)
      PROVE  TurnInv'
  <2>1. Turn(r) /\ Proper(r, f, v) /\ UNCHANGED << bus, scene >>
    BY <1>5 DEF BeginSet, Called
  <2>2. \A d \in Clients : held'[d] = IF d = c THEN Pending(r, f, v, bus[Index(r)]) ELSE held[d]
    BY <1>5 DEF BeginSet, ShapeInv
  <2>3. ASSUME NEW d \in Clients, NEW s \in held'[d].reg \cap scene'.kept
        PROVE  /\ held'[d].base = bus'[Index(s)]
               /\ Fits(s, held'[d].field, held'[d].value)
               /\ \A e \in Clients : s \in held'[e].reg => e = d
    <3>1. CASE d = c
      <4>1. s = r /\ held'[d] = Pending(r, f, v, bus[Index(r)])
        <5>1. held'[d] = Pending(r, f, v, bus[Index(r)])
          BY <2>2, <3>1
        <5> QED
          BY <2>3, <5>1 DEF Pending
      <4>2. Fits(r, f, v) /\ \A e \in Clients : r \notin held[e].reg
        BY <2>1, <2>3, <4>1 DEF Turn, Proper
      <4>3. \A e \in Clients : s \in held'[e].reg => e = d
        BY <2>2, <3>1, <4>1, <4>2
      <4> QED
        BY <2>1, <4>1, <4>2, <4>3 DEF Pending
    <3>2. CASE d # c
      <4>1. held'[d] = held[d] /\ s \in held[d].reg \cap scene.kept
        BY <2>1, <2>2, <2>3, <3>2
      <4>2. s # r
        BY <2>1, <4>1 DEF Turn
      <4>3. \A e \in Clients : s \in held'[e].reg => s \in held[e].reg
        BY <2>2, <4>2 DEF Pending
      <4> QED
        BY <2>1, <4>1, <4>3 DEF TurnInv
    <3> QED
      BY <3>1, <3>2
  <2> QED
    BY <2>3 DEF TurnInv
<1>6. ASSUME NEW c \in Clients, NEW r \in scene.used, NEW vs \in WholeArgs[r],
             SetRegister(c, r, vs)
      PROVE  TurnInv'
  BY <1>0, <1>6, <1>a DEF SetRegister, Called
<1>7. ASSUME NEW c \in Clients, NEW r \in scene.used, NEW w \in RawArgs[r], SetRaw(c, r, w)
      PROVE  TurnInv'
  BY <1>0, <1>7, <1>a DEF SetRaw, Called
<1>8. ASSUME NEW r \in scene.used, CoreWrites(r)
      PROVE  TurnInv'
  <2>1. \A c \in Clients : r \notin held[c].reg
    BY <1>8, PendingCall DEF CoreWrites
  <2> QED
    BY <1>0, <1>8, <1>a, <2>1 DEF CoreWrites, Turn
<1>9. CASE UNCHANGED accessVars
  BY <1>9, <1>b DEF accessVars
<1> QED
  BY <1>1, <1>2, <1>3, <1>4, <1>5, <1>6, <1>7, <1>8, <1>9 DEF Next, Method

-----------------------------------------------------------------------------
\* The class implements the atomic store of named fields: for every layout in
\* which fields do not overlap, every set of clients, and every set of kept
\* registers.
THEOREM StoreImplemented == Spec => ImplementsStore
<1>1. Init => Store!StoreInit
  <2> SUFFICES ASSUME Init PROVE Store!StoreInit
    OBVIOUS
  <2>1. ShapeInv /\ scene.kept \subseteq Registers
    BY Initially, ArgsAssumption DEF ShapeInv
  <2>2. ASSUME NEW r \in Registers
        PROVE  Slices(r, bus[Index(r)]) = Reset(r)
    <3> DEFINE s == CHOOSE q \in Registers : Index(q) = Index(r)
    <3>1. s = r
      BY LayoutAssumption
    <3>2. bus[Index(r)] = Joined(s, Reset(s))
      BY DEF Init
    <3>3. bus[Index(r)] = Joined(r, Reset(r))
      BY <3>1, <3>2
    <3>4. Reset(r) = [f \in Fields(r) |-> Reset(r)[f]]
      BY DEF Reset
    <3>5. \A f \in Fields(r) : Fits(r, f, Reset(r)[f])
      BY LayoutAssumption
    <3> QED
      BY <3>3, <3>4, <3>5, JoinedFields
  <2>3. [r \in scene.kept |-> Slices(r, bus[Index(r)])]
          = [r \in scene.kept |-> [q \in Registers |-> Reset(q)][r]]
    BY <2>1, <2>2
  <2> QED
    BY <2>1, <2>3 DEF Store!StoreInit, Store!NoEvent, NoEvent, Init
<1>2. Init => ShapeInv /\ TurnInv
  BY Initially
<1>3. ShapeInv /\ TurnInv /\ [Next]_accessVars => (ShapeInv /\ TurnInv)'
  BY ShapeStep, TurnStep
<1>4. ShapeInv /\ TurnInv /\ [Next]_accessVars => [Store!StoreNext]_(Store!storeVars)
  BY StepRefines
<1> QED
  BY <1>1, <1>2, <1>3, <1>4, PTL DEF Spec, ImplementsStore, Store!StoreSpec

\* A value that the setter accepted is stored as it is, so that a write that
\* damaged something has called the handler.
LEMMA ExactOne ==
    ASSUME NEW r \in Registers, NEW f \in Fields(r), NEW v, NEW base,
           Typed(r, f, v), SetterAccepts(r, f, v)
    PROVE  Slices(r, Modified(r, f, base, v)) = [Slices(r, base) EXCEPT ![f] = v]
  BY AcceptedFits, ModifiedFields

\* The same for a register with one field, which is written without being read.
LEMMA ExactOnly ==
    ASSUME NEW r \in Registers, NEW f \in Fields(r), NEW v,
           Typed(r, f, v), SetterAccepts(r, f, v)
    PROVE  Slices(r, ToRaw(r, f, v)) = [Slices(r, {}) EXCEPT ![f] = v]
<1>1. Modified(r, f, {}, v) = ToRaw(r, f, v)
  BY DEF Modified
<1> QED
  BY <1>1, ExactOne

\* The same for a method that writes all fields.
LEMMA ExactAll ==
    ASSUME NEW r \in Registers, NEW vs, vs = [f \in Fields(r) |-> vs[f]],
           \A f \in Fields(r) : Typed(r, f, vs[f]) /\ SetterAccepts(r, f, vs[f])
    PROVE  Slices(r, Joined(r, vs)) = vs
<1>1. \A f \in Fields(r) : Fits(r, f, vs[f])
  BY AcceptedFits
<1> QED
  BY <1>1, JoinedFields

\* No write damages a field, or loses bits of a value, without a call of the
\* assertion handler: for every layout and every limit not wider than its field.
THEOREM SpillAlwaysReported == Spec => []SpillReported
<1>1. Init => ShapeInv /\ SpillReported
  BY Initially DEF Init, SpillReported
<1>2. ShapeInv /\ SpillReported /\ [Next]_accessVars => SpillReported'
  <2> SUFFICES ASSUME ShapeInv, SpillReported, [Next]_accessVars PROVE SpillReported'
    OBVIOUS
  <2> USE ArgsAssumption
  <2>0. scene.used \subseteq Registers
    BY DEF ShapeInv
  <2>a. ASSUME NEW ok, Alarm("setter", ok), ok => (spilled' => spilled)
        PROVE  SpillReported'
    BY <2>a DEF Alarm, SpillReported
  <2>b. ASSUME spilled' => spilled, alarms \subseteq alarms'
        PROVE  SpillReported'
    BY <2>b DEF SpillReported
  <2>1. ASSUME NEW c \in Clients, EndSet(c)
        PROVE  SpillReported'
    <3> DEFINE f == held[c].field
               v == held[c].value
               base == held[c].base
    <3>1. PICK r \in held[c].reg : Stored(r, f, v, base, Modified(r, f, base, v))
      BY <2>1 DEF EndSet
    <3>2. r \in Registers /\ f \in Fields(r) /\ Typed(r, f, v)
      BY PendingCall
    <3>3. SetterAccepts(r, f, v) => (spilled' => spilled)
      <4>1. SetterAccepts(r, f, v) =>
              Slices(r, Modified(r, f, base, v)) = [Slices(r, base) EXCEPT ![f] = v]
        BY <3>2, ExactOne
      <4>2. spilled' => \/ spilled
                        \/ Slices(r, Modified(r, f, base, v)) # [Slices(r, base) EXCEPT ![f] = v]
        BY <3>1 DEF Stored
      <4> QED
        BY <4>1, <4>2
    <3>4. Alarm("setter", SetterAccepts(r, f, v))
      BY <3>1 DEF Stored
    <3> QED
      BY <2>a, <3>3, <3>4
  <2>2. ASSUME NEW c \in Clients, NEW r \in scene.used, NEW f \in Fields(r),
               NEW v \in Args[r][f], SetOnly(c, r, f, v)
        PROVE  SpillReported'
    <3>1. r \in Registers /\ Typed(r, f, v)
      BY <2>0
    <3>2. SetterAccepts(r, f, v) => (spilled' => spilled)
      <4>1. SetterAccepts(r, f, v) => Slices(r, ToRaw(r, f, v)) = [Slices(r, {}) EXCEPT ![f] = v]
        BY <3>1, ExactOnly
      <4>2. spilled' => spilled \/ Slices(r, ToRaw(r, f, v)) # [Slices(r, {}) EXCEPT ![f] = v]
        BY <2>2 DEF SetOnly, Stored
      <4> QED
        BY <4>1, <4>2
    <3>3. Alarm("setter", SetterAccepts(r, f, v))
      BY <2>2 DEF SetOnly, Stored
    <3> QED
      BY <2>a, <3>2, <3>3
  <2>3. ASSUME NEW c \in Clients, NEW r \in scene.used, NEW vs \in WholeArgs[r],
               SetRegister(c, r, vs)
        PROVE  SpillReported'
    <3>1. r \in Registers /\ vs = [f \in Fields(r) |-> vs[f]]
          /\ \A f \in Fields(r) : Typed(r, f, vs[f])
      BY <2>0
    <3>2. (\A f \in Fields(r) : SetterAccepts(r, f, vs[f])) => (spilled' => spilled)
      BY <2>3, <3>1, ExactAll DEF SetRegister
    <3>3. Alarm("setter", \A f \in Fields(r) : SetterAccepts(r, f, vs[f]))
      BY <2>3 DEF SetRegister
    <3> QED
      BY <2>a, <3>2, <3>3
  <2>4. ASSUME NEW c \in Clients, NEW r \in scene.used,
               \/ GetRegister(c, r)
               \/ \E f \in Fields(r) : GetField(c, r, f) \/ \E v \in Args[r][f] : BeginSet(c, r, f, v)
               \/ \E w \in RawArgs[r] : SetRaw(c, r, w)
        PROVE  SpillReported'
    <3>1. (spilled' => spilled) /\ alarms \subseteq alarms'
      <4>1. CASE GetRegister(c, r)
        BY <4>1 DEF GetRegister, Alarm
      <4>2. CASE \E f \in Fields(r) : GetField(c, r, f)
        BY <4>2 DEF GetField, Alarm
      <4>3. CASE \E f \in Fields(r) : \E v \in Args[r][f] : BeginSet(c, r, f, v)
        BY <4>3 DEF BeginSet
      <4>4. CASE \E w \in RawArgs[r] : SetRaw(c, r, w)
        BY <4>4 DEF SetRaw
      <4> QED
        BY <2>4, <4>1, <4>2, <4>3, <4>4
    <3> QED
      BY <2>b, <3>1
  <2>5. ASSUME NEW r \in scene.used, CoreWrites(r)
        PROVE  SpillReported'
    BY <2>5, <2>b DEF CoreWrites
  <2>6. CASE UNCHANGED accessVars
    BY <2>6, <2>b DEF accessVars
  <2> QED
    BY <2>1, <2>2, <2>3, <2>4, <2>5, <2>6 DEF Next, Method
<1> QED
  BY <1>1, <1>2, ShapeStep, PTL DEF Spec

-----------------------------------------------------------------------------
(* As long as nobody misuses the class, every readable word, and every     *)
(* word that a client holds, has fields in the range of the getters; a     *)
(* stale word that is written back is one, too.                            *)
Sound(r, w) == \A f \in Fields(r) : GetterAccepts(r, f, FromRaw(r, f, w))

QuietInv == ~misused =>
    /\ "getter" \notin alarms
    /\ \A r \in Registers : Sound(r, bus[Index(r)])
    /\ \A c \in Clients : \A r \in held[c].reg : Sound(r, held[c].base)

\* A word whose fields are those of a sound word and accepted values is sound.
LEMMA SoundModified ==
    ASSUME NEW r \in Registers, NEW f \in Fields(r), NEW v, NEW w, Sound(r, w),
           Typed(r, f, v), InRange(r, f, v)
    PROVE  Sound(r, Modified(r, f, w, v))
<1>1. Slices(r, Modified(r, f, w, v)) = [Slices(r, w) EXCEPT ![f] = v]
  BY ExactOne DEF InRange
<1>2. \A g \in Fields(r) : FromRaw(r, g, Modified(r, f, w, v)) =
                            IF g = f THEN v ELSE FromRaw(r, g, w)
  BY <1>1 DEF Slices
<1> QED
  BY <1>2 DEF Sound, InRange

\* A word joined of accepted values is sound.
LEMMA SoundJoined ==
    ASSUME NEW r \in Registers, NEW vs, vs = [f \in Fields(r) |-> vs[f]],
           \A f \in Fields(r) : Typed(r, f, vs[f]) /\ InRange(r, f, vs[f])
    PROVE  Sound(r, Joined(r, vs))
<1>1. Slices(r, Joined(r, vs)) = vs
  BY ExactAll DEF InRange
<1>2. \A f \in Fields(r) : FromRaw(r, f, Joined(r, vs)) = vs[f]
  BY <1>1 DEF Slices
<1> QED
  BY <1>2 DEF Sound, InRange

\* So is the word of a register with one field.
LEMMA SoundOnly ==
    ASSUME NEW r \in Registers, NEW f \in Fields(r), NEW v, ~Several(r),
           Typed(r, f, v), InRange(r, f, v)
    PROVE  Sound(r, ToRaw(r, f, v))
<1>1. Slices(r, ToRaw(r, f, v)) = [Slices(r, {}) EXCEPT ![f] = v]
  BY ExactOnly DEF InRange
<1>2. FromRaw(r, f, ToRaw(r, f, v)) = v /\ \A g \in Fields(r) : g = f
  BY <1>1 DEF Slices, Several
<1> QED
  BY <1>2 DEF Sound, InRange

\* Getters complain only after a misuse, whatever set methods overlap.
THEOREM GettersQuiet == Spec => []GetterQuiet
<1>1. Init => ShapeInv /\ QuietInv
  <2> SUFFICES ASSUME Init PROVE QuietInv
    BY Initially
  <2>1. ASSUME NEW r \in Registers
        PROVE  Sound(r, bus[Index(r)])
    <3> DEFINE s == CHOOSE q \in Registers : Index(q) = Index(r)
    <3>1. s = r
      BY LayoutAssumption
    <3>2. bus[Index(r)] = Joined(s, Reset(s))
      BY DEF Init
    <3>3. bus[Index(r)] = Joined(r, Reset(r))
      BY <3>1, <3>2
    <3>4. Slices(r, Joined(r, Reset(r))) = Reset(r)
      <4>1. Reset(r) = [f \in Fields(r) |-> Reset(r)[f]]
        BY DEF Reset
      <4>2. \A f \in Fields(r) : Fits(r, f, Reset(r)[f])
        BY LayoutAssumption
      <4> QED
        BY <4>1, <4>2, JoinedFields
    <3>5. \A f \in Fields(r) : FromRaw(r, f, bus[Index(r)]) = Reset(r)[f]
      BY <3>3, <3>4 DEF Slices
    <3> QED
      BY <3>5, RangeAssumption DEF Sound
  <2> QED
    BY <2>1 DEF Init, QuietInv, Idle
<1>2. ShapeInv /\ QuietInv /\ [Next]_accessVars => QuietInv'
  <2> SUFFICES ASSUME ShapeInv, QuietInv, [Next]_accessVars, ~misused' PROVE QuietInv'
    BY DEF QuietInv
  <2> USE ArgsAssumption
  <2>0. scene.used \subseteq Registers
    BY DEF ShapeInv
  <2>a. ASSUME NEW r \in Registers, NEW w, Write(r, w), Sound(r, w), ~misused,
               "getter" \notin alarms',
               \A c \in Clients : held'[c] = held[c] \/ held'[c] = Idle
        PROVE  QuietInv'
    <3>1. \A s \in Registers : Sound(s, bus'[Index(s)])
      BY <2>a, WriteEffect DEF QuietInv
    <3>2. \A c \in Clients : \A s \in held'[c].reg : Sound(s, held'[c].base)
      BY <2>a DEF QuietInv, Idle
    <3> QED
      BY <2>a, <3>1, <3>2 DEF QuietInv
  <2>b. ASSUME UNCHANGED << bus, held >>, ~misused, "getter" \notin alarms'
        PROVE  QuietInv'
    BY <2>b DEF QuietInv
  <2>1. ASSUME NEW c \in Clients, EndSet(c)
        PROVE  QuietInv'
    <3> DEFINE f == held[c].field
               v == held[c].value
               base == held[c].base
    <3>1. PICK r \in held[c].reg : Stored(r, f, v, base, Modified(r, f, base, v))
      BY <2>1 DEF EndSet
    <3>2. r \in Registers /\ f \in Fields(r) /\ Typed(r, f, v)
      BY PendingCall
    <3>3. ~misused /\ InRange(r, f, v)
      BY <3>1 DEF Stored, Misuse
    <3>4. Sound(r, base)
      BY <3>3 DEF QuietInv
    <3>5. Sound(r, Modified(r, f, base, v))
      BY <3>2, <3>3, <3>4, SoundModified
    <3>6. Write(r, Modified(r, f, base, v)) /\ "getter" \notin alarms'
      BY <3>1, <3>3 DEF Stored, Alarm, QuietInv
    <3>7. \A d \in Clients : held'[d] = held[d] \/ held'[d] = Idle
      BY <2>1 DEF EndSet, ShapeInv
    <3> QED
      BY <2>a, <3>2, <3>3, <3>5, <3>6, <3>7
  <2>2. ASSUME NEW c \in Clients, NEW r \in scene.used, NEW f \in Fields(r),
               NEW v \in Args[r][f], SetOnly(c, r, f, v)
        PROVE  QuietInv'
    <3>1. r \in Registers /\ Typed(r, f, v) /\ ~Several(r)
      BY <2>0, <2>2 DEF SetOnly
    <3>2. ~misused /\ InRange(r, f, v)
      BY <2>2 DEF SetOnly, Stored, Misuse
    <3>3. Write(r, ToRaw(r, f, v)) /\ "getter" \notin alarms' /\ held' = held
      BY <2>2, <3>2 DEF SetOnly, Stored, Alarm, QuietInv
    <3> QED
      BY <2>a, <3>1, <3>2, <3>3, SoundOnly
  <2>3. ASSUME NEW c \in Clients, NEW r \in scene.used, NEW vs \in WholeArgs[r],
               SetRegister(c, r, vs)
        PROVE  QuietInv'
    <3>1. r \in Registers /\ vs = [f \in Fields(r) |-> vs[f]]
          /\ \A f \in Fields(r) : Typed(r, f, vs[f])
      BY <2>0
    <3>2. ~misused /\ \A f \in Fields(r) : InRange(r, f, vs[f])
      BY <2>3 DEF SetRegister, Misuse
    <3>3. Write(r, Joined(r, vs)) /\ "getter" \notin alarms' /\ held' = held
      BY <2>3, <3>2 DEF SetRegister, Alarm, QuietInv
    <3>4. Sound(r, Joined(r, vs))
      BY <3>1, <3>2, SoundJoined
    <3> QED
      BY <2>a, <3>1, <3>2, <3>3, <3>4
  <2>4. ASSUME NEW c \in Clients, NEW r \in scene.used, NEW w \in RawArgs[r], SetRaw(c, r, w)
        PROVE  QuietInv'
    <3>1. ~misused /\ Sound(r, w)
      BY <2>4 DEF SetRaw, Misuse, InRange, Sound
    <3>2. Write(r, w) /\ "getter" \notin alarms' /\ held' = held
      BY <2>4, <3>1 DEF SetRaw, QuietInv
    <3> QED
      BY <2>0, <2>a, <3>1, <3>2
  <2>5. ASSUME NEW c \in Clients, NEW r \in scene.used, GetRegister(c, r)
        PROVE  QuietInv'
    <3>1. ~misused /\ UNCHANGED << bus, held >>
      BY <2>5 DEF GetRegister
    <3>2. Sound(r, bus[Index(r)]) /\ "getter" \notin alarms
      BY <2>0, <3>1 DEF QuietInv
    <3>3. "getter" \notin alarms'
      BY <2>5, <3>2 DEF GetRegister, Alarm, Sound
    <3> QED
      BY <2>b, <3>1, <3>3
  <2>6. ASSUME NEW c \in Clients, NEW r \in scene.used, NEW f \in Fields(r), GetField(c, r, f)
        PROVE  QuietInv'
    <3>1. ~misused /\ UNCHANGED << bus, held >>
      BY <2>6 DEF GetField
    <3>2. Sound(r, bus[Index(r)]) /\ "getter" \notin alarms
      BY <2>0, <3>1 DEF QuietInv
    <3>3. "getter" \notin alarms'
      BY <2>6, <3>2 DEF GetField, Alarm, Sound
    <3> QED
      BY <2>b, <3>1, <3>3
  <2>7. ASSUME NEW c \in Clients, NEW r \in scene.used, NEW f \in Fields(r),
               NEW v \in Args[r][f], BeginSet(c, r, f, v)
        PROVE  QuietInv'
    <3>1. ~misused /\ UNCHANGED << bus, alarms >>
      BY <2>7 DEF BeginSet
    <3>2. \A d \in Clients : held'[d] = IF d = c THEN Pending(r, f, v, bus[Index(r)]) ELSE held[d]
      BY <2>7 DEF BeginSet, ShapeInv
    <3>3. Sound(r, bus[Index(r)])
      BY <2>0, <3>1 DEF QuietInv
    <3>4. \A d \in Clients : \A s \in held'[d].reg : Sound(s, held'[d].base)
      BY <3>1, <3>2, <3>3 DEF QuietInv, Pending
    <3> QED
      BY <3>1, <3>4 DEF QuietInv
  <2>8. ASSUME NEW r \in scene.used, CoreWrites(r)
        PROVE  QuietInv'
    <3>1. PICK w \in Presented[r] : Write(r, w)
      BY <2>8 DEF CoreWrites
    <3>2. Sound(r, w) /\ ~misused /\ "getter" \notin alarms' /\ held' = held
      BY <2>0, <2>8, RangeAssumption DEF CoreWrites, Sound, QuietInv
    <3> QED
      BY <2>0, <2>a, <3>1, <3>2
  <2>9. CASE UNCHANGED accessVars
    BY <2>9, <2>b DEF accessVars, QuietInv
  <2> QED
    BY <2>1, <2>2, <2>3, <2>4, <2>5, <2>6, <2>7, <2>8, <2>9 DEF Next, Method
<1>3. QuietInv => GetterQuiet
  BY DEF QuietInv, GetterQuiet
<1> QED
  BY <1>1, <1>2, <1>3, ShapeStep, PTL DEF Spec
=============================================================================
