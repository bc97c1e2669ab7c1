--------------------------- MODULE RegisterAccess ---------------------------
(***************************************************************************)
(* The C++ register class (src/gen/can_fd_fi.cpp) over the register bus.   *)
(* Clients call its methods at any time; one step is one bus access, with  *)
(* the computation around it. A set method of a register with several      *)
(* fields reads the register and writes it back, so that another client    *)
(* may come between its two accesses.                                      *)
(*                                                                         *)
(* A word is the set of positions of its 1 bits: a shift adds to each      *)
(* position (what passes bit 31 is lost), & is \cap, | is \cup. The class  *)
(* does not mask a value it writes; it calls the assertion handler for one *)
(* that is too large, and goes on when the handler returns.                *)
(*                                                                         *)
(* The methods of all registers have the same few forms. What differs      *)
(* (index, mode, fields, checked ranges) is the constant Methods, which    *)
(* RegisterMap gives for each register.                                    *)
(***************************************************************************)
EXTENDS Integers

CONSTANTS
    Clients,
    Registers,      \* names
    Methods,        \* [register -> [index, reads, writes, fields, least, most, limit]]
    Args,           \* [register -> [field -> set of values]] that clients pass
    WholeArgs,      \* [register -> set of [field -> value]]
    RawArgs,        \* [register -> set of words]
    Presented,      \* [register -> set of words] the core shows in it
    Scenes,         \* set of [used, kept]: registers called, and called with discipline
    MaxCalls        \* bound on the methods called in a behaviour

Bits == 0 .. 31
Fields(r) == DOMAIN Methods[r].fields
Shift(r, f) == Methods[r].fields[f].shift
Width(r, f) == Methods[r].fields[f].width
Mask(r, f) == Shift(r, f) .. Shift(r, f) + Width(r, f) - 1
Index(r) == Methods[r].index
Several(r) == \E f, g \in Fields(r) : f # g

\* get_*_from_raw and get_*_to_raw without their assertions.
FromRaw(r, f, w) == {b - Shift(r, f) : b \in w \cap Mask(r, f)}
ToRaw(r, f, v) == {b + Shift(r, f) : b \in v} \cap Bits
Slices(r, w) == [f \in Fields(r) |-> FromRaw(r, f, w)]
Joined(r, vs) == UNION {ToRaw(r, f, vs[f]) : f \in Fields(r)}

ModifiedOver(r, f, w, v) == w \cup ToRaw(r, f, v)      \* mutant: bits not cleared
ModifiedAlone(r, f, w, v) == ToRaw(r, f, v)            \* mutant: base is always 0

\* (raw_value & mask_shifted_inverse) | field_value_raw
Modified(r, f, w, v) == (w \ Mask(r, f)) \cup ToRaw(r, f, v)

\* v <= m as numbers: the highest bit in which they differ is set in m.
AtMost(v, m) == v = m \/ \E k \in m \ v : \A j \in v \ m : j < k

SetterAcceptsWide(r, f, v) ==                           \* mutant: one bit too many
    f \in DOMAIN Methods[r].limit => AtMost(v, Methods[r].limit[f] \cup {Width(r, f)})

\* The expressions of _SETTER_ASSERT_TRUE and _GETTER_ASSERT_TRUE.
SetterAccepts(r, f, v) ==
    f \in DOMAIN Methods[r].limit => AtMost(v, Methods[r].limit[f])
GetterAccepts(r, f, v) ==
    /\ f \in DOMAIN Methods[r].least => AtMost(Methods[r].least[f], v)
    /\ f \in DOMAIN Methods[r].most => AtMost(v, Methods[r].most[f])

InRange(r, f, v) == SetterAccepts(r, f, v) /\ GetterAccepts(r, f, v)
Fits(r, f, v) == v \subseteq 0 .. Width(r, f) - 1
Reset(r) == [f \in Fields(r) |-> Methods[r].fields[f].reset]

\* What RegisterMap has to get right: every register has an index of its own,
\* and every field bits of its own.
ASSUME LayoutAssumption ==
    \A r \in Registers :
        /\ \A s \in Registers : Index(r) = Index(s) => r = s
        /\ \A f \in Fields(r) :
             /\ Shift(r, f) \in Nat /\ Width(r, f) \in Nat /\ Mask(r, f) \subseteq Bits
             /\ Fits(r, f, Reset(r)[f])
             /\ \A g \in Fields(r) : f # g => Mask(r, f) \cap Mask(r, g) = {}

\* The limit a setter checks is not wider than its field, and the value after
\* reset and the words that the core shows are ones the getters accept.
ASSUME RangeAssumption ==
    \A r \in Registers : \A f \in Fields(r) :
        /\ f \in DOMAIN Methods[r].limit => Fits(r, f, Methods[r].limit[f])
        /\ GetterAccepts(r, f, Reset(r)[f])
        /\ ~Methods[r].writes =>
             \A w \in Presented[r] : GetterAccepts(r, f, FromRaw(r, f, w))

\* An argument has 32 bits; the type of one that is not checked has no more
\* values than the field.
Typed(r, f, v) == v \subseteq Bits /\ (f \notin DOMAIN Methods[r].limit => Fits(r, f, v))
ASSUME ArgsAssumption ==
    /\ \A r \in Registers :
        /\ \A f \in Fields(r) : \A v \in Args[r][f] : Typed(r, f, v)
        /\ \A vs \in WholeArgs[r] :
             vs = [f \in Fields(r) |-> vs[f]] /\ \A f \in Fields(r) : Typed(r, f, vs[f])
        /\ RawArgs[r] \cup Presented[r] \subseteq SUBSET Bits
    /\ \A s \in Scenes : s.used \subseteq Registers /\ s.kept \subseteq Registers
    /\ MaxCalls \in Nat

VARIABLES
    bus,            \* index -> word: the registers as the bus sees them
    held,           \* client -> the set method between its two accesses, or Idle
    event,          \* the method that just took effect, see FieldStore
    scene,          \* registers in use, and those used with discipline; rigid
    calls,          \* methods called so far
    alarms,         \* assertions that called the handler: "setter", "getter"
    misused,        \* a value outside of the documented range was passed
    spilled         \* a write damaged another field or lost part of the value

accessVars == << bus, held, event, scene, calls, alarms, misused, spilled >>

Idle == [reg |-> {}]
Pending(r, f, v, w) == [reg |-> {r}, field |-> f, value |-> v, base |-> w]
NoEvent == [method |-> "none", of |-> {}, values |-> [f \in {} |-> {}]]
Got(r, vs) == [method |-> "get", of |-> {r}, values |-> vs]
Passed(r, vs) == [method |-> "set", of |-> {r}, values |-> vs]
Single(f, v) == [g \in {f} |-> v]

Init ==
    /\ bus = [i \in {Index(r) : r \in Registers} |->
                LET r == CHOOSE r \in Registers : Index(r) = i
                IN  Joined(r, Reset(r))]
    /\ held = [c \in Clients |-> Idle]
    /\ event = NoEvent
    /\ scene \in Scenes
    /\ calls = 0
    /\ alarms = {} /\ misused = FALSE /\ spilled = FALSE

-----------------------------------------------------------------------------
(* A client may begin a method.                                            *)
Called(c, r) ==
    /\ held[c] = Idle
    /\ calls < MaxCalls /\ calls' = calls + 1
    /\ UNCHANGED scene

\* The discipline of the kept registers, which the class leaves to its callers:
\* no write while another client is between its two accesses, no value that
\* does not fit its field.
Turn(r) == r \in scene.kept => \A d \in Clients : r \notin held[d].reg
Proper(r, f, v) == r \in scene.kept => Fits(r, f, v)

Alarm(kind, ok) == alarms' = IF ok THEN alarms ELSE alarms \cup {kind}
Misuse(ok) == misused' = (misused \/ ~ok)

\* m_registers[index] = w
Write(r, w) == bus' = [bus EXCEPT ![Index(r)] = w]

\* get_<register>: one access, then every field is sliced out and checked.
GetRegister(c, r) ==
    /\ Called(c, r) /\ Methods[r].reads
    /\ event' = Got(r, Slices(r, bus[Index(r)]))
    /\ Alarm("getter", \A f \in Fields(r) : GetterAccepts(r, f, FromRaw(r, f, bus[Index(r)])))
    /\ UNCHANGED << bus, held, misused, spilled >>

\* get_<register>_<field>.
GetField(c, r, f) ==
    /\ Called(c, r) /\ Methods[r].reads
    /\ event' = Got(r, Single(f, FromRaw(r, f, bus[Index(r)])))
    /\ Alarm("getter", GetterAccepts(r, f, FromRaw(r, f, bus[Index(r)])))
    /\ UNCHANGED << bus, held, misused, spilled >>

\* set_<register>: the raw fields are joined and written at once.
SetRegister(c, r, vs) ==
    /\ Called(c, r) /\ Methods[r].writes /\ Turn(r)
    /\ \A f \in Fields(r) : Proper(r, f, vs[f])
    /\ Write(r, Joined(r, vs))
    /\ event' = Passed(r, vs)
    /\ Alarm("setter", \A f \in Fields(r) : SetterAccepts(r, f, vs[f]))
    /\ Misuse(\A f \in Fields(r) : InRange(r, f, vs[f]))
    /\ spilled' = (spilled \/ Slices(r, Joined(r, vs)) # vs)
    /\ UNCHANGED held

\* set_<register>_raw: no conversion, no check.
SetRaw(c, r, w) ==
    /\ Called(c, r) /\ Methods[r].writes /\ Turn(r)
    /\ Write(r, w)
    /\ event' = Passed(r, Slices(r, w))
    /\ Misuse(\A f \in Fields(r) : InRange(r, f, FromRaw(r, f, w)))
    /\ UNCHANGED << held, alarms, spilled >>

\* What a set method of one field does with its own field and the others.
Stored(r, f, v, base, w) ==
    /\ Write(r, w)
    /\ event' = Passed(r, Single(f, v))
    /\ Alarm("setter", SetterAccepts(r, f, v))
    /\ Misuse(InRange(r, f, v))
    /\ spilled' = (spilled \/ Slices(r, w) # [Slices(r, base) EXCEPT ![f] = v])

\* set_<register>_<field> of a register with one field: base_value is 0.
SetOnly(c, r, f, v) ==
    /\ Called(c, r) /\ Methods[r].writes /\ Turn(r)
    /\ ~Several(r) /\ Proper(r, f, v)
    /\ Stored(r, f, v, {}, ToRaw(r, f, v))
    /\ UNCHANGED held

\* set_<register>_<field> of a register with several: read ...
BeginSet(c, r, f, v) ==
    /\ Called(c, r) /\ Methods[r].writes /\ Turn(r)
    /\ Several(r) /\ Proper(r, f, v)
    /\ held' = [held EXCEPT ![c] = Pending(r, f, v, bus[Index(r)])]
    /\ event' = NoEvent
    /\ UNCHANGED << bus, alarms, misused, spilled >>

\* ... modify and write.
EndSet(c) ==
    /\ \E r \in held[c].reg :
         Stored(r, held[c].field, held[c].value, held[c].base,
                Modified(r, held[c].field, held[c].base, held[c].value))
    /\ held' = [held EXCEPT ![c] = Idle]
    /\ UNCHANGED << scene, calls >>

\* The core shows another word in a register that the bus only reads.
CoreWrites(r) ==
    /\ ~Methods[r].writes
    /\ \E w \in Presented[r] : w # bus[Index(r)] /\ Write(r, w)
    /\ UNCHANGED << held, event, scene, calls, alarms, misused, spilled >>

Method(c, r) ==
    \/ GetRegister(c, r)
    \/ \E f \in Fields(r) :
         \/ GetField(c, r, f)
         \/ \E v \in Args[r][f] : SetOnly(c, r, f, v) \/ BeginSet(c, r, f, v)
    \/ \E vs \in WholeArgs[r] : SetRegister(c, r, vs)
    \/ \E w \in RawArgs[r] : SetRaw(c, r, w)

Next ==
    \/ \E c \in Clients : EndSet(c) \/ \E r \in scene.used : Method(c, r)
    \/ \E r \in scene.used : CoreWrites(r)

Spec == Init /\ [][Next]_accessVars

-----------------------------------------------------------------------------
\* The class implements the store of named fields: whatever else happens on
\* the bus, and whatever callers do to other registers, a register whose callers
\* take turns is never changed in a field that was not named, holds what was
\* last passed, and is read as it is. The bus access that writes is the moment
\* at which a method takes effect.
Store == INSTANCE FieldStore WITH
    Initial <- [r \in Registers |-> Reset(r)],
    Volatile <- {r \in Registers : ~Methods[r].writes},
    kept <- scene.kept,
    fields <- [r \in scene.kept |-> Slices(r, bus[Index(r)])]
ImplementsStore == Store!StoreSpec

\* A value that is too large for its field runs into the next one, because
\* the class only shifts it. The assertion handler has always been called
\* when a write damaged a field or lost a part of its value: the checked
\* limits are never wider than the field.
SpillReported == spilled => "setter" \in alarms

\* A getter never complains unless a caller has passed a value outside of
\* the range that getter and setter check: not after reset, not for a register the core
\* writes, and not for what is left of a field after two set methods of one
\* register overlapped.
GetterQuiet == "getter" \in alarms => misused
=============================================================================
