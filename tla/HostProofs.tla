----------------------------- MODULE HostProofs -----------------------------
(***************************************************************************)
(* The control program for every slot table, command line and payload, and *)
(* wherever it is killed.                                                  *)
(*                                                                         *)
(* RunsAsConfigured speaks of the core in operation only. What is          *)
(* inductive (HostInv) follows an invocation from access to access: Made   *)
(* counts them, Settled is the configuration that the probe will give      *)
(* back, and Stored the payload memory with the writes that are still on   *)
(* their way. Each slot and each vector is as the operator asked for,      *)
(* unless it is being programmed or owed; those need a disabled core. Then *)
(* nothing changes under a frame, and ServeInv follows the identifier      *)
(* through the tree and the vector through the RAM (ServedAsWanted).       *)
(***************************************************************************)
EXTENDS HostBus, MemoryUnitProofs, SequenceTheorems

(* The values that come up *)

MatchValues == { IdPart(line.value) : line \in FiLines } \cup {0}
MaskValues == { IdPart(line.mask) : line \in FiLines } \cup {0}
Kinds == DOMAIN OneHot
FaultValues == [kind : Kinds, field : 0 .. 7, meta : Nat]
Wants ==
    [timing : [TimingFields -> SUBSET Nat],
     slots : [Entries -> [value : MatchValues, mask : MaskValues, fault : FaultValues]],
     vectors : [Entries -> [Segments -> Words]]]
AccessValues == Nat \cup MatchValues \cup MaskValues \cup FiFrames \cup Words
Accesses == [op : Fields \cup {"save", "read", "check", "restore", "value", "mask",
                               "fi", "data", "addr", "valid"},
             at : Nat \cup ConfigRegisters, v : AccessValues]
Programming == {"set_fi", "set_vec"} \X Nat
Keys == { Idle, << "status", 0 >>, << "enable", 0 >>, << "disable", 0 >> }
        \cup ({"conf_can"} \X CanOptions) \cup ({"conf_fi"} \X FiOptions)
        \cup Programming

Contents(r) == [FieldsOf(r) -> Nat]
ConfigTypeOK ==
    /\ config = [r \in ConfigRegisters |-> config[r]]
    /\ \A r \in ConfigRegisters : config[r] \in Contents(r)
    /\ Value("cfg_en") \in Bit

HostTypeOK ==
    /\ ConfigTypeOK
    /\ id_mem \in [Entries -> [value : MatchValues, mask : MaskValues, fi : FiFrames]]
    /\ mu \in [data : Words, addr : Nat, valid : Bit] /\ was_written \in Bit
    /\ bram_write \in [en : Bit, entry : Entries, seg : Segments, data : Words]
    /\ Banks
    /\ awake \in Bit /\ key \in Keys /\ owed \in SUBSET Programming
    /\ mode \in {"on", "off", "unsure"} /\ want \in Wants /\ wanted \in Wants
    /\ todo \in Seq(Accesses)
-----------------------------------------------------------------------------
(* The accesses of the invocation under way *)

\* The commands that consist of field setters, and what they set.
Configures(command) == command[1] \in {"enable", "disable", "conf_can", "conf_fi"}
Setters(command) ==
    CASE command[1] = "enable"   -> Enable
      [] command[1] = "disable"  -> Disable
      [] command[1] = "conf_can" -> ConfCan(command[2])
      [] command[1] = "conf_fi"  -> ConfFi(command[2])
Setting(command) ==
    CASE command[1] = "enable"  -> [f \in {"cfg_en"} |-> 0]
      [] command[1] = "disable" -> [f \in {"cfg_en"} |-> 1]
      [] OTHER                  -> command[2]

Length ==
    CASE key[1] \in {"none", "status"} -> 0
      [] Configures(key)               -> Len(Setters(key))
      [] key[1] = "set_fi"  -> IF key[2] \in Entries THEN 3 ELSE 0
      [] key[1] = "set_vec" -> 4 * SegCnt
Made == 7 + Length - Len(todo)

ProbeItem(n, a) ==
    /\ n = 1 => a.op = "save"
    /\ n \in {2, 4} => a.op = "read" /\ a.at = "GLOBAL_CONFIG"
    /\ n = 3 => a.op = "cfg_en" /\ a.v = 1
    /\ n = 5 => a.op = "brp_nomi" /\ a.v = ProbeBrp
    /\ n = 6 => a.op = "check"
    /\ n = 7 => a.op = "restore"
SlotItem(n, a, idx) ==
    /\ a.at = idx
    /\ n = 8  => a.op = "value" /\ a.v = wanted.slots[idx].value
    /\ n = 9  => a.op = "mask" /\ a.v = wanted.slots[idx].mask
    /\ n = 10 => a.op = "fi" /\ a.v \in FiFrames
                 /\ a.v = Meant(wanted.slots[idx].fault)
\* The segment that access n concerns: the last one first.
SegAt(n) == SegCnt - WordAt(n - 7)
VectorItem(n, a, idx) ==
    /\ Turn(n - 7) = 1 => a.op = "data" /\ a.v \in Words
                          /\ (idx \in Entries => a.v = wanted.vectors[idx][SegAt(n)])
    /\ Turn(n - 7) = 2 => a.op = "addr" /\ a.v = idx * SegStride + SegAt(n)
    /\ Turn(n - 7) = 3 => a.op = "valid" /\ a.v = 1
    /\ Turn(n - 7) = 4 => a.op = "valid" /\ a.v = 0
CommandItem(n, a) ==
    /\ Configures(key)     => a = Setters(key)[n - 7]
    /\ key[1] = "set_fi"   => SlotItem(n, a, key[2])
    /\ key[1] = "set_vec"  => VectorItem(n, a, key[2])
Item(n, a) == IF n <= 7 THEN ProbeItem(n, a) ELSE CommandItem(n, a)

Busy == todo /= << >>
TodoInv ==
    /\ Len(todo) <= 7 + Length
    /\ \A i \in 1 .. Len(todo) : Item(Made + i, todo[i])

\* What the operator changes with the command under way.
WantInv ==
    /\ ~Busy => key = Idle /\ wanted = want
    /\ \A f \in TimingFields :
        wanted.timing[f] = IF f \in Timed(key) THEN {key[2][f]} ELSE want.timing[f]
    /\ \A e \in Entries :
        /\ key /= << "set_fi", e >> => wanted.slots[e] = want.slots[e]
        /\ key /= << "set_vec", e >> => wanted.vectors[e] = want.vectors[e]
-----------------------------------------------------------------------------
(* The configuration *)

\* What the field has before the probe, which the probe restores.
Settled(f) == IF Busy /\ Made \in 1 .. 6 /\ RegisterOf[f] = "GLOBAL_CONFIG"
              THEN cfg_save[f] ELSE Value(f)

ProbeInv ==
    Busy =>
        /\ Made \in 1 .. 6 =>
            /\ cfg_save \in Contents("GLOBAL_CONFIG") /\ cfg_save["cfg_en"] \in Bit
            /\ \A f \in FieldsOf("GLOBAL_CONFIG") \ {"cfg_en", "brp_nomi"} :
                  Value(f) = cfg_save[f]
        /\ Made \in {1, 2} => config["GLOBAL_CONFIG"] = cfg_save
        /\ Made \in 3 .. 6 => Value("cfg_en") = 1
        /\ Made \in {5, 6} => Value("brp_nomi") = ProbeBrp
        /\ Made \in {2, 4} => base = config["GLOBAL_CONFIG"]

\* Of the field setters: what is read is written back, what is set stays set.
SetterInv ==
    Busy /\ Configures(key) /\ Made >= 8 =>
        /\ Setters(key)[Made - 7].op = "read" =>
              base = config[Setters(key)[Made - 7].at]
        /\ \A i \in 1 .. Made - 7 : Setters(key)[i].op \in Fields =>
              Value(Setters(key)[i].op) = Setters(key)[i].v

\* The timing is one of those that the operator reckons with, but for the test
\* value that a killed probe has left in a disabled core.
Reckoned(f) == Settled(f) \in want.timing[f] \cup wanted.timing[f]
ConfigInv ==
    /\ awake = 1 => Value("cfg_en") = 0
    /\ mode = "off" => Settled("cfg_en") = 1
    /\ key[1] = "enable" => mode = "off" /\ owed = {} /\ unset = {}
    /\ ({key} \cup owed) \cap Programming /= {} => Settled("cfg_en") = 1
    /\ \A f \in TimingFields : f /= "brp_nomi" => Reckoned(f)
    /\ "brp_nomi" \notin unset \/ Settled("cfg_en") = 0 => Reckoned("brp_nomi")
-----------------------------------------------------------------------------
(* Slots and vectors *)

Fixed(command) == command \notin owed /\ key /= command

SlotAs(slot, w) ==
    slot.value = w.value /\ slot.mask = w.mask /\ slot.fi = Meant(w.fault)
SlotInv ==
    /\ \A e \in Entries : Fixed(<< "set_fi", e >>) => SlotAs(id_mem[e], want.slots[e])
    /\ key[1] = "set_fi" /\ key[2] \in Entries =>
        /\ Made >= 8 => id_mem[key[2]].value = wanted.slots[key[2]].value
        /\ Made >= 9 => id_mem[key[2]].mask = wanted.slots[key[2]].mask

\* A write takes one edge to the memory unit and one to the RAM.
Pending == was_written = 1 /\ mu.valid = 1
Written(e, s) ==
    IF bram_write.en = 1 /\ bram_write.entry = e /\ bram_write.seg = s
    THEN bram_write.data ELSE WideWord(e)[s]
Stored(e, s) ==
    IF Pending /\ mu.addr = e * SegStride + s THEN mu.data ELSE Written(e, s)

PendingInv ==
    /\ Pending => Value("cfg_en") = 1 /\ Settled("cfg_en") = 1
    /\ bram_write.en = 1 => Value("cfg_en") = 1 /\ Settled("cfg_en") = 1
    /\ key[1] = "enable" =>
        /\ Made >= 1 => was_written = 0
        /\ Made >= 2 => bram_write.en = 0
\* Of a vector that is being programmed: the words before access n have arrived.
Arrived(n, idx) ==
    /\ Turn(n - 7) \in 1 .. 3 /\ idx \in Entries =>
          mu.data = wanted.vectors[idx][SegAt(n)]
    /\ Turn(n - 7) \in 2 .. 3 => mu.addr = idx * SegStride + SegAt(n)
    /\ idx \in Entries => \A s \in Segments :
          s > SegAt(n) \/ (s = SegAt(n) /\ Turn(n - 7) >= 3) =>
              Stored(idx, s) = wanted.vectors[idx][s]
VectorInv ==
    /\ \A e \in Entries : Fixed(<< "set_vec", e >>) =>
          \A s \in Segments : Stored(e, s) = want.vectors[e][s]
    /\ key[1] = "set_vec" /\ Made >= 8 => Arrived(Made, key[2])

HostInv ==
    /\ HostTypeOK /\ TodoInv /\ WantInv /\ ProbeInv /\ SetterInv /\ ConfigInv
    /\ SlotInv /\ PendingInv /\ VectorInv
-----------------------------------------------------------------------------
(* The fields of the configuration registers *)

LEMMA FieldFacts ==
    /\ Fields = {"cfg_en", "brp_nomi", "brp_data", "td_en", "ssp", "ph1_nomi", "ph2_nomi",
                 "sjw_nomi", "ph1_data", "ph2_data", "sjw_data", "psp_nomi", "psp_data",
                 "fip_nomi", "fip_data"}
    /\ RegisterOf["cfg_en"] = "GLOBAL_CONFIG" /\ RegisterOf["brp_nomi"] = "GLOBAL_CONFIG"
    /\ "GLOBAL_CONFIG" \in ConfigRegisters
    /\ \A f \in Fields : RegisterOf[f] \in ConfigRegisters /\ f \in FieldsOf(RegisterOf[f])
    /\ FieldsOf("FI_CONFIG") = {"psp_nomi", "psp_data", "fip_nomi", "fip_data"}
    /\ \A r : FieldsOf(r) \subseteq Fields
<1>1. Fields = {"cfg_en", "brp_nomi", "brp_data", "td_en", "ssp", "ph1_nomi", "ph2_nomi",
                "sjw_nomi", "ph1_data", "ph2_data", "sjw_data", "psp_nomi", "psp_data",
                "fip_nomi", "fip_data"}
  BY DEF Fields, RegisterOf
<1>2. RegisterOf["cfg_en"] = "GLOBAL_CONFIG" /\ RegisterOf["brp_nomi"] = "GLOBAL_CONFIG"
  BY DEF RegisterOf
<1>3. FieldsOf("FI_CONFIG") = {"psp_nomi", "psp_data", "fip_nomi", "fip_data"}
  BY <1>1 DEF FieldsOf, RegisterOf
<1>4. "GLOBAL_CONFIG" \in ConfigRegisters
  <2>1. "cfg_en" \in Fields
    BY <1>1
  <2> QED
    BY <1>2, <2>1 DEF ConfigRegisters
<1>5. \A f \in Fields : RegisterOf[f] \in ConfigRegisters /\ f \in FieldsOf(RegisterOf[f])
  BY DEF ConfigRegisters, FieldsOf
<1> QED
  BY <1>1, <1>2, <1>3, <1>4, <1>5 DEF FieldsOf

\* A setter writes its field, and the others of the register as they are.
LEMMA FieldWritten ==
    ASSUME ConfigTypeOK, NEW f \in Fields, NEW v \in Nat, f = "cfg_en" => v \in Bit,
           base = config[RegisterOf[f]],
           config' = [config EXCEPT ![RegisterOf[f]] = [base EXCEPT ![f] = v]]
    PROVE  ConfigTypeOK' /\ \A g \in Fields : Value(g)' = IF g = f THEN v ELSE Value(g)
<1> DEFINE r == RegisterOf[f]
<1>1. r \in ConfigRegisters /\ f \in FieldsOf(r)
  BY FieldFacts
<1>2. config = [q \in ConfigRegisters |-> config[q]]
      /\ \A q \in ConfigRegisters : config[q] \in Contents(q)
  BY DEF ConfigTypeOK
<1> DEFINE new == [base EXCEPT ![f] = v]
<1>3. new \in Contents(r) /\ \A g \in FieldsOf(r) : new[g] = IF g = f THEN v ELSE base[g]
  <2>1. base \in [FieldsOf(r) -> Nat]
    BY <1>1, <1>2 DEF Contents
  <2> HIDE DEF r
  <2> QED
    BY <1>1, <2>1 DEF Contents
<1>4. config' = [config EXCEPT ![r] = new]
  OBVIOUS
<1> HIDE DEF new
<1>5. /\ config' = [q \in ConfigRegisters |-> config'[q]]
      /\ \A q \in ConfigRegisters : config'[q] = IF q = r THEN new ELSE config[q]
  BY <1>1, <1>2, <1>4
<1>6. ASSUME NEW g \in Fields
      PROVE  Value(g)' = IF g = f THEN v ELSE Value(g)
  <2>1. RegisterOf[g] \in ConfigRegisters /\ g \in FieldsOf(RegisterOf[g])
    BY FieldFacts
  <2>2. Value(g)' = config'[RegisterOf[g]][g] /\ Value(g) = config[RegisterOf[g]][g]
    BY DEF Value
  <2>3. CASE RegisterOf[g] = r
    BY <1>3, <1>5, <2>1, <2>2, <2>3
  <2>4. CASE RegisterOf[g] /= r
    BY <1>5, <2>1, <2>2, <2>4
  <2> QED
    BY <2>3, <2>4
<1>7. Value("cfg_en")' \in Bit
  BY <1>6, FieldFacts DEF ConfigTypeOK
<1>8. \A q \in ConfigRegisters : config'[q] \in Contents(q)
  BY <1>2, <1>3, <1>5
<1> QED
  BY <1>5, <1>6, <1>7, <1>8 DEF ConfigTypeOK

LEMMA ValueTypes ==
    ASSUME ConfigTypeOK
    PROVE  \A f \in Fields : Value(f) \in Nat
<1> SUFFICES ASSUME NEW f \in Fields PROVE Value(f) \in Nat
  OBVIOUS
<1>1. RegisterOf[f] \in ConfigRegisters /\ f \in FieldsOf(RegisterOf[f])
  BY FieldFacts
<1> QED
  BY <1>1 DEF Value, ConfigTypeOK, Contents
-----------------------------------------------------------------------------
(* The lists of accesses *)

\* Concatenation, with the lengths as numbers.
Joins(u, s, t, m, n) ==
    /\ u \in Seq(Accesses) /\ Len(u) = n
    /\ \A i \in 1 .. n : u[i] = IF i <= m THEN s[i] ELSE t[i - m]

LEMMA Joined ==
    ASSUME NEW s \in Seq(Accesses), NEW t \in Seq(Accesses)
    PROVE  Joins(s \o t, s, t, Len(s), Len(s) + Len(t))
  BY ConcatProperties DEF Joins

LEMMA SetterAccesses ==
    ASSUME NEW f \in Fields, NEW v \in Nat
    PROVE  LET s == SetConfigField(f, v)
           IN  /\ s \in Seq(Accesses) /\ Len(s) = 2
               /\ s[1] = Access("read", RegisterOf[f], 0) /\ s[2] = Access(f, 0, v)
<1>1. Access("read", RegisterOf[f], 0) \in Accesses /\ Access(f, 0, v) \in Accesses
  BY FieldFacts DEF Access, Accesses, AccessValues
<1> HIDE DEF Accesses, Access
<1> QED
  BY <1>1 DEF SetConfigField

\* A list of field setters: each write has what args has for the field, and
\* follows a read of the register of the field.
SetterAt(u, i, args) ==
    \/ u[i].op = "read" /\ u[i].at \in ConfigRegisters
    \/ /\ u[i].op \in Fields /\ u[i].op \in DOMAIN args /\ u[i].v = args[u[i].op]
       /\ i > 1 /\ u[i - 1].op = "read" /\ u[i - 1].at = RegisterOf[u[i].op]
Sets(u, args, given) ==
    /\ u \in Seq(Accesses)
    /\ \A i \in 1 .. Len(u) : SetterAt(u, i, args)
    /\ \A f \in given \cap DOMAIN args : \E i \in 1 .. Len(u) : u[i].op = f

LEMMA SetsOne ==
    ASSUME NEW f \in Fields, NEW args, f \in DOMAIN args, args[f] \in Nat
    PROVE  Sets(SetConfigField(f, args[f]), args, {f})
<1> DEFINE s == SetConfigField(f, args[f])
<1>1. /\ s \in Seq(Accesses) /\ Len(s) = 2
      /\ s[1] = Access("read", RegisterOf[f], 0) /\ s[2] = Access(f, 0, args[f])
  BY SetterAccesses
<1>2. RegisterOf[f] \in ConfigRegisters
  BY FieldFacts
<1> HIDE DEF s
<1>3. ASSUME NEW i \in 1 .. 2
      PROVE  SetterAt(s, i, args)
  <2>1. CASE i = 1
    BY <1>1, <1>2, <2>1 DEF SetterAt, Access
  <2>2. CASE i = 2
    BY <1>1, <2>2 DEF SetterAt, Access
  <2> QED
    BY <2>1, <2>2
<1>4. s[2].op = f
  BY <1>1 DEF Access
<1>5. Sets(s, args, {f})
  BY <1>1, <1>3, <1>4 DEF Sets
<1> QED
  BY <1>5 DEF s

LEMMA GivenOne ==
    ASSUME NEW f \in Fields, NEW args, f \in DOMAIN args => args[f] \in Nat
    PROVE  Sets(Given(f, args), args, {f})
<1>1. CASE f \in DOMAIN args
  BY <1>1, SetsOne DEF Given
<1>2. CASE f \notin DOMAIN args
  <2>1. Given(f, args) = << >> /\ Len(<< >>) = 0 /\ << >> \in Seq(Accesses)
    BY <1>2 DEF Given
  <2> QED
    BY <1>2, <2>1 DEF Sets
<1> QED
  BY <1>1, <1>2

LEMMA GivenSets ==
    ASSUME NEW u, NEW args, NEW given, Sets(u, args, given), NEW f \in Fields,
           f \in DOMAIN args => args[f] \in Nat
    PROVE  Sets(u \o Given(f, args), args, given \cup {f})
<1> DEFINE t == Given(f, args)
           k == Len(u)
           m == Len(t)
<1>1. u \in Seq(Accesses) /\ k \in Nat
  BY DEF Sets
<1>2. Sets(t, args, {f})
  BY GivenOne
<1>3. t \in Seq(Accesses) /\ m \in Nat
  BY <1>2 DEF Sets
<1> HIDE DEF t
<1>4. PICK w : w = u \o t
  OBVIOUS
<1>5. Joins(w, u, t, k, k + m)
  BY <1>1, <1>3, <1>4, Joined
<1>6. w \in Seq(Accesses) /\ Len(w) = k + m
  BY <1>5 DEF Joins
<1>7. /\ \A i \in 1 .. k : w[i] = u[i]
      /\ \A i \in 1 .. m : w[k + i] = t[i]
  BY <1>1, <1>3, <1>5 DEF Joins
<1> HIDE DEF k, m
<1>8. ASSUME NEW i \in 1 .. k + m
      PROVE  SetterAt(w, i, args)
  <2>1. CASE i \in 1 .. k
    <3>1. SetterAt(u, i, args)
      BY <2>1 DEF Sets, k
    <3>2. i > 1 => i - 1 \in 1 .. k
      BY <1>1, <2>1
    <3> QED
      BY <1>7, <2>1, <3>1, <3>2 DEF SetterAt
  <2>2. CASE i \notin 1 .. k
    <3>1. PICK j : j = i - k
      OBVIOUS
    <3>2. j \in 1 .. m /\ i = k + j /\ (j > 1 => j - 1 \in 1 .. m /\ i - 1 = k + (j - 1))
      BY <1>1, <1>3, <2>2, <3>1
    <3>3. SetterAt(t, j, args)
      BY <1>2, <3>2 DEF Sets, m
    <3>4. w[i] = t[j] /\ (j > 1 => w[i - 1] = t[j - 1] /\ i > 1)
      <4>1. j \in Int /\ (j > 1 => k + j > 1)
        BY <1>1, <3>2
      <4> QED
        BY <1>7, <3>2, <4>1
    <3> QED
      BY <3>3, <3>4 DEF SetterAt
  <2> QED
    BY <2>1, <2>2
<1>9. ASSUME NEW g \in (given \cup {f}) \cap DOMAIN args
      PROVE  \E i \in 1 .. k + m : w[i].op = g
  <2>1. CASE g \in given
    <3>1. PICK i \in 1 .. k : u[i].op = g
      BY <1>9, <2>1 DEF Sets, k
    <3>2. i \in 1 .. k + m
      BY <1>1, <1>3
    <3> QED
      BY <1>7, <3>1, <3>2
  <2>2. CASE g = f
    <3>1. PICK i \in 1 .. m : t[i].op = g
      BY <1>2, <1>9, <2>2 DEF Sets, m
    <3>2. k + i \in 1 .. k + m
      BY <1>1, <1>3
    <3> QED
      BY <1>7, <3>1, <3>2
  <2> QED
    BY <2>1, <2>2
<1>10. Sets(w, args, given \cup {f})
  BY <1>6, <1>8, <1>9 DEF Sets
<1> QED
  BY <1>4, <1>10 DEF t

LEMMA ConfSets ==
    ASSUME NEW a, DOMAIN a \subseteq TimingFields, \A f \in DOMAIN a : a[f] \in Nat
    PROVE  /\ FieldsOf("FI_CONFIG") \cap DOMAIN a = {} => Sets(ConfCan(a), a, DOMAIN a)
           /\ DOMAIN a \subseteq FieldsOf("FI_CONFIG") => Sets(ConfFi(a), a, DOMAIN a)
<1>1. /\ \A f \in Fields : f \in DOMAIN a => a[f] \in Nat
      /\ DOMAIN a \subseteq Fields \ {"cfg_en"}
  BY DEF TimingFields
<1>2. ASSUME FieldsOf("FI_CONFIG") \cap DOMAIN a = {}
      PROVE  Sets(ConfCan(a), a, DOMAIN a)
  <2> DEFINE u1 == Given("brp_nomi", a)   d1 == {"brp_nomi"}
             u2 == u1 \o Given("brp_data", a)   d2 == d1 \cup {"brp_data"}
             u3 == u2 \o Given("td_en", a)   d3 == d2 \cup {"td_en"}
             u4 == u3 \o Given("ssp", a)   d4 == d3 \cup {"ssp"}
             u5 == u4 \o Given("ph1_nomi", a)   d5 == d4 \cup {"ph1_nomi"}
             u6 == u5 \o Given("ph1_data", a)   d6 == d5 \cup {"ph1_data"}
             u7 == u6 \o Given("ph2_nomi", a)   d7 == d6 \cup {"ph2_nomi"}
             u8 == u7 \o Given("ph2_data", a)   d8 == d7 \cup {"ph2_data"}
             u9 == u8 \o Given("sjw_nomi", a)   d9 == d8 \cup {"sjw_nomi"}
             u10 == u9 \o Given("sjw_data", a)   d10 == d9 \cup {"sjw_data"}
  <2>1. u10 = ConfCan(a) /\ DOMAIN a \subseteq d10
    <3>1. u10 = ConfCan(a)
      BY DEF ConfCan
    <3>2. DOMAIN a \subseteq d10
      BY <1>1, <1>2, FieldFacts
    <3> QED
      BY <3>1, <3>2
  <2>2. {"brp_nomi", "brp_data", "td_en", "ssp", "ph1_nomi",
         "ph1_data", "ph2_nomi", "ph2_data", "sjw_nomi", "sjw_data"} \subseteq Fields
    BY FieldFacts
  <2> HIDE DEF u1, d1, u2, d2, u3, d3, u4, d4, u5, d5, u6, d6, u7, d7, u8, d8, u9, d9, u10, d10
  <2>3. Sets(u1, a, d1)
    BY <1>1, <2>2, GivenOne DEF u1, d1
  <2>4. Sets(u2, a, d2)
    BY <1>1, <2>2, <2>3, GivenSets DEF u2, d2
  <2>5. Sets(u3, a, d3)
    BY <1>1, <2>2, <2>4, GivenSets DEF u3, d3
  <2>6. Sets(u4, a, d4)
    BY <1>1, <2>2, <2>5, GivenSets DEF u4, d4
  <2>7. Sets(u5, a, d5)
    BY <1>1, <2>2, <2>6, GivenSets DEF u5, d5
  <2>8. Sets(u6, a, d6)
    BY <1>1, <2>2, <2>7, GivenSets DEF u6, d6
  <2>9. Sets(u7, a, d7)
    BY <1>1, <2>2, <2>8, GivenSets DEF u7, d7
  <2>10. Sets(u8, a, d8)
    BY <1>1, <2>2, <2>9, GivenSets DEF u8, d8
  <2>11. Sets(u9, a, d9)
    BY <1>1, <2>2, <2>10, GivenSets DEF u9, d9
  <2>12. Sets(u10, a, d10)
    BY <1>1, <2>2, <2>11, GivenSets DEF u10, d10
  <2> QED
    BY <2>1, <2>12 DEF Sets
<1>3. ASSUME DOMAIN a \subseteq FieldsOf("FI_CONFIG")
      PROVE  Sets(ConfFi(a), a, DOMAIN a)
  <2> DEFINE u1 == Given("psp_nomi", a)   d1 == {"psp_nomi"}
             u2 == u1 \o Given("psp_data", a)   d2 == d1 \cup {"psp_data"}
             u3 == u2 \o Given("fip_nomi", a)   d3 == d2 \cup {"fip_nomi"}
             u4 == u3 \o Given("fip_data", a)   d4 == d3 \cup {"fip_data"}
  <2>1. u4 = ConfFi(a) /\ DOMAIN a \subseteq d4
    <3>1. u4 = ConfFi(a)
      BY DEF ConfFi
    <3>2. DOMAIN a \subseteq d4
      BY <1>1, <1>3, FieldFacts
    <3> QED
      BY <3>1, <3>2
  <2>2. {"psp_nomi", "psp_data", "fip_nomi", "fip_data"} \subseteq Fields
    BY FieldFacts
  <2> HIDE DEF u1, d1, u2, d2, u3, d3, u4, d4
  <2>3. Sets(u1, a, d1)
    BY <1>1, <2>2, GivenOne DEF u1, d1
  <2>4. Sets(u2, a, d2)
    BY <1>1, <2>2, <2>3, GivenSets DEF u2, d2
  <2>5. Sets(u3, a, d3)
    BY <1>1, <2>2, <2>4, GivenSets DEF u3, d3
  <2>6. Sets(u4, a, d4)
    BY <1>1, <2>2, <2>5, GivenSets DEF u4, d4
  <2> QED
    BY <2>1, <2>6 DEF Sets
<1> QED
  BY <1>2, <1>3

\* Every command that configures is such a list, for the fields it was given.
LEMMA CommandSets ==
    ASSUME NEW command \in Keys, Configures(command)
    PROVE  LET args == Setting(command)
               u == Setters(command)
           IN  /\ Sets(u, args, DOMAIN args)
               /\ DOMAIN args \subseteq Fields
               /\ \A f \in DOMAIN args : args[f] \in Nat
               /\ command[1] \in {"conf_can", "conf_fi"} =>
                    args = command[2] /\ "cfg_en" \notin DOMAIN args
               /\ command[1] \in {"enable", "disable"} =>
                    /\ Len(u) = 2 /\ u[1].op = "read" /\ u[2].op = "cfg_en"
                    /\ DOMAIN args = {"cfg_en"}
                    /\ args["cfg_en"] = IF command[1] = "enable" THEN 0 ELSE 1
<1> DEFINE args == Setting(command)
           u == Setters(command)
<1>1. CASE command[1] \in {"enable", "disable"}
  <2>1. PICK v : v = IF command[1] = "enable" THEN 0 ELSE 1
    OBVIOUS
  <2>2. args = [f \in {"cfg_en"} |-> v] /\ u = SetConfigField("cfg_en", v) /\ v \in Nat
    BY <1>1, <2>1 DEF Setting, Setters, Enable, Disable
  <2>3. "cfg_en" \in Fields
    BY FieldFacts
  <2>4. DOMAIN args = {"cfg_en"} /\ args["cfg_en"] = v
    BY <2>2
  <2>5. Sets(u, args, {"cfg_en"})
    BY <2>2, <2>3, <2>4, SetsOne
  <2>6. Len(u) = 2 /\ u[1].op = "read" /\ u[2].op = "cfg_en"
    <3>1. /\ Len(u) = 2 /\ u[1] = Access("read", RegisterOf["cfg_en"], 0)
          /\ u[2] = Access("cfg_en", 0, v)
      BY <2>2, <2>3, SetterAccesses
    <3> HIDE DEF u
    <3> QED
      BY <3>1 DEF Access
  <2> HIDE DEF args, u
  <2>7. command[1] \notin {"conf_can", "conf_fi"}
    BY <1>1
  <2> QED
    BY <2>1, <2>2, <2>3, <2>4, <2>5, <2>6, <2>7 DEF args, u
<1>2. CASE command[1] \in {"conf_can", "conf_fi"}
  <2>1. PICK a : a = command[2]
    OBVIOUS
  <2>2. /\ command[1] = "conf_can" => a \in CanOptions
        /\ command[1] = "conf_fi" => a \in FiOptions
    BY <1>2, <2>1 DEF Keys, Idle, Programming
  <2>3. args = a
    BY <1>2, <2>1 DEF Setting
  <2>4. DOMAIN a \subseteq TimingFields /\ \A f \in DOMAIN a : a[f] \in Nat
    BY <1>2, <2>2, OperatorAssumption
  <2>5. DOMAIN a \subseteq Fields /\ "cfg_en" \notin DOMAIN a
    BY <2>4 DEF TimingFields
  <2>6. Sets(u, a, DOMAIN a)
    <3>1. CASE command[1] = "conf_can"
      BY <2>1, <2>2, <2>4, <3>1, ConfSets, OperatorAssumption DEF Setters
    <3>2. CASE command[1] = "conf_fi"
      BY <2>1, <2>2, <2>4, <3>2, ConfSets, OperatorAssumption DEF Setters
    <3> QED
      BY <1>2, <3>1, <3>2
  <2> HIDE DEF args, u
  <2>7. command[1] \notin {"enable", "disable"}
    BY <1>2
  <2> QED
    BY <2>1, <2>3, <2>4, <2>5, <2>6, <2>7 DEF args, u
<1> QED
  BY <1>1, <1>2 DEF Configures

LEMMA LengthIsNat ==
    ASSUME HostTypeOK
    PROVE  Length \in Nat
<1>1. key \in Keys /\ 4 * SegCnt \in Nat
  BY MemoryAssumption DEF HostTypeOK
<1>2. \/ key[1] \in {"none", "status"} \/ Configures(key)
      \/ key[1] \in {"set_fi", "set_vec"}
  BY <1>1 DEF Keys, Idle, Programming, Configures
<1>3. CASE Configures(key)
  <2>1. Setters(key) \in Seq(Accesses)
    BY <1>1, <1>3, CommandSets DEF Sets
  <2>2. key[1] \notin {"none", "status"}
    BY <1>3 DEF Configures
  <2>3. Len(Setters(key)) \in Nat
    BY <2>1
  <2>4. Length = Len(Setters(key))
    BY <1>3, <2>2 DEF Length, Configures
  <2> QED
    BY <2>3, <2>4
<1>4. CASE ~Configures(key)
  <2>1. CASE key[1] \in {"none", "status"}
    BY <1>4, <2>1 DEF Length
  <2>2. CASE key[1] = "set_fi"
    <3>1. Length = IF key[2] \in Entries THEN 3 ELSE 0
      BY <1>4, <2>2 DEF Length
    <3> QED
      BY <3>1
  <2>3. CASE key[1] = "set_vec"
    BY <1>1, <1>4, <2>3 DEF Length
  <2> QED
    BY <1>2, <1>4, <2>1, <2>2, <2>3
<1> QED
  BY <1>3, <1>4
-----------------------------------------------------------------------------
(* Writes to the payload memory *)

\* The memory unit takes an address apart again.
LEMMA AddressParts ==
    ASSUME NEW a \in Nat
    PROVE  /\ Accepted(a) => a \div SegStride \in Entries /\ a % SegStride \in Segments
           /\ \A e \in Entries, s \in Segments :
                a = e * SegStride + s
                  <=> Accepted(a) /\ a \div SegStride = e /\ a % SegStride = s
<1>1. SegStride \in Nat \ {0} /\ SegCnt \in Nat /\ SegCnt <= SegStride
  BY MemoryAssumption
<1>2. 2 ^ TreeDepth \in Nat
  BY MemoryAssumption, PowersAssumption
<1> DEFINE all == 2 ^ TreeDepth
           q == a \div SegStride
           r == a % SegStride
<1>3. q \in Nat /\ r \in Nat /\ r < SegStride
  BY <1>1
<1>4. a - q * SegStride = r
  BY <1>1
<1>5. a < all * SegStride => q < all
  BY <1>1, <1>2
<1>6. Accepted(a) => q \in Entries /\ r \in Segments
  <2>1. Accepted(a) => q < all /\ r < SegCnt
    BY <1>5 DEF Accepted
  <2> QED
    BY <1>1, <1>2, <1>3, <2>1 DEF Entries, Segments
<1>7. ASSUME NEW e \in Entries, NEW s \in Segments, a = e * SegStride + s
      PROVE  Accepted(a) /\ q = e /\ r = s
  <2>1. e \in Nat /\ e < all /\ s \in 0 .. SegStride - 1 /\ s < SegCnt
    BY <1>1, <1>2 DEF Entries, Segments
  <2>2. q = e /\ r = s
    BY <1>1, <1>7, <2>1
  <2>3. a < all * SegStride
    <3> HIDE DEF all
    <3>1. e * SegStride + s < all * SegStride + 0
      BY <1>1, <1>2, <2>1, RowsApart DEF all
    <3>2. all * SegStride \in Int
      BY <1>1, <1>2 DEF all
    <3> QED
      BY <1>7, <3>1, <3>2
  <2> QED
    BY <2>1, <2>2, <2>3 DEF Accepted
<1>8. ASSUME NEW e \in Entries, NEW s \in Segments, q = e, r = s
      PROVE  a = e * SegStride + s
  <2>1. e * SegStride \in Int /\ r \in Int
    BY <1>1, <1>3, <1>8
  <2>2. a = q * SegStride + r
    BY <1>4, <1>8, <2>1
  <2> QED
    BY <1>8, <2>2
<1> QED
  BY <1>6, <1>7, <1>8

\* One edge takes each write one stage further, and none is lost or doubled.
LEMMA EdgeWrites ==
    ASSUME HostTypeOK, Unit, Pending => Value("cfg_en") = 1
    PROVE  /\ bram_write' \in [en : Bit, entry : Entries, seg : Segments, data : Words]
           /\ Banks'
           /\ bram_write'.en = 1 => Pending
           /\ \A e \in Entries, s \in Segments : Written(e, s)' = Stored(e, s)
<1> DEFINE write == Presented
           cfg_en == Value("cfg_en")
<1>1. WriteAxiToRam(cfg_en, write) /\ WriteRoute
  BY DEF Unit, MuClock
<1>2. /\ write.addr = mu.addr /\ write.data = mu.data
      /\ write.valid = 1 <=> Pending
  BY DEF Presented, Pending
<1>3. /\ mu.addr \in Nat /\ mu.data \in Words
      /\ bram_write \in [en : Bit, entry : Entries, seg : Segments, data : Words]
      /\ Banks
  BY DEF HostTypeOK
<1> HIDE DEF write
<1>4. WriteStrobe(cfg_en, write) <=> Pending
  BY <1>2 DEF WriteStrobe
<1>5. NoWrite \in [en : Bit, entry : Entries, seg : Segments, data : Words]
  <2>1. 0 \in Entries
    BY MemoryAssumption, PowersAssumption DEF Entries
  <2>2. 0 \in Segments /\ 0 \in Words
    BY MemoryAssumption DEF Segments
  <2> QED
    BY <2>1, <2>2 DEF NoWrite, Bit
<1>6. bram_write' = IF Pending /\ Accepted(mu.addr)
                    THEN [en |-> 1, entry |-> mu.addr \div SegStride,
                          seg |-> mu.addr % SegStride, data |-> mu.data]
                    ELSE NoWrite
  BY <1>1, <1>2, <1>4 DEF WriteAxiToRam
<1>7. bram_write' \in [en : Bit, entry : Entries, seg : Segments, data : Words]
  <2>1. CASE Pending /\ Accepted(mu.addr)
    BY <1>3, <1>6, <2>1, AddressParts DEF Bit
  <2>2. CASE ~(Pending /\ Accepted(mu.addr))
    BY <1>5, <1>6, <2>2
  <2> QED
    BY <2>1, <2>2
<1>8. bram_write'.en = 1 => Pending /\ Accepted(mu.addr)
  BY <1>6 DEF NoWrite
<1>9. Banks'
  BY <1>1, <1>3 DEF WriteRoute, Banks
<1>10. ASSUME NEW e \in Entries, NEW s \in Segments
       PROVE  Written(e, s)' = Stored(e, s)
  <2>1. WideWord(e)'[s] = Written(e, s)
    BY <1>1, <1>3, SegmentStored DEF Written
  <2>2. CASE Pending /\ mu.addr = e * SegStride + s
    <3>1. bram_write' = [en |-> 1, entry |-> e, seg |-> s, data |-> mu.data]
      BY <1>3, <1>6, <2>2, AddressParts
    <3> QED
      BY <2>2, <3>1 DEF Written, Stored
  <2>3. CASE ~(Pending /\ mu.addr = e * SegStride + s)
    <3>1. ~(bram_write'.en = 1 /\ bram_write'.entry = e /\ bram_write'.seg = s)
      <4>1. CASE Pending /\ Accepted(mu.addr)
        BY <1>3, <1>6, <2>3, <4>1, AddressParts
      <4>2. CASE ~(Pending /\ Accepted(mu.addr))
        BY <1>8, <4>2
      <4> QED
        BY <4>1, <4>2
    <3>2. Written(e, s)' = WideWord(e)'[s]
      BY <3>1 DEF Written
    <3>3. Stored(e, s) = Written(e, s)
      BY <2>3 DEF Stored
    <3> QED
      BY <2>1, <3>2, <3>3
  <2> QED
    BY <2>2, <2>3
<1>11. bram_write'.en = 1 => Pending
  BY <1>8
<1> QED
  BY <1>7, <1>9, <1>10, <1>11
-----------------------------------------------------------------------------
(* Edges without an access *)

LEMMA EdgeStep ==
    ASSUME HostInv, Unit, NoAccess, UNCHANGED operatorVars,
           awake' \in Bit, awake' = 1 => Value("cfg_en") = 0
    PROVE  HostInv'
<1>1. /\ config' = config /\ mu' = mu /\ id_mem' = id_mem
      /\ todo' = todo /\ base' = base /\ cfg_save' = cfg_save /\ was_written' = 0
      /\ mode' = mode /\ key' = key /\ owed' = owed /\ unset' = unset
      /\ want' = want /\ wanted' = wanted
  BY DEF NoAccess, programVars, operatorVars
<1>2. /\ HostTypeOK /\ TodoInv /\ WantInv /\ ProbeInv /\ SetterInv /\ ConfigInv
      /\ SlotInv /\ PendingInv /\ VectorInv
  BY DEF HostInv
<1>3. /\ bram_write' \in [en : Bit, entry : Entries, seg : Segments, data : Words]
      /\ Banks'
      /\ bram_write'.en = 1 => Pending
      /\ \A e \in Entries, s \in Segments : Written(e, s)' = Stored(e, s)
  BY <1>2, EdgeWrites DEF PendingInv
<1>4. HostTypeOK'
  <2>1. ConfigTypeOK'
    BY <1>1, <1>2 DEF HostTypeOK, ConfigTypeOK, Value
  <2> QED
    BY <1>1, <1>2, <1>3, <2>1 DEF HostTypeOK, Bit
<1>5. /\ Length' = Length /\ Made' = Made /\ Busy' = Busy
      /\ \A f : Value(f)' = Value(f) /\ Settled(f)' = Settled(f)
  <2>1. Length' = Length /\ Made' = Made /\ Busy' = Busy
    BY <1>1 DEF Length, Made, Busy
  <2> QED
    BY <1>1, <2>1 DEF Settled, Value
<1>6. TodoInv'
  <2>1. ASSUME NEW n, NEW a PROVE Item(n, a)' = Item(n, a)
    BY <1>1 DEF Item, CommandItem, SlotItem, VectorItem
  <2> QED
    BY <1>1, <1>2, <1>5, <2>1 DEF TodoInv
<1>7. WantInv' /\ SlotInv'
  BY <1>1, <1>2, <1>5 DEF WantInv, SlotInv, Fixed
<1>8. ProbeInv' /\ SetterInv' /\ ConfigInv'
  BY <1>1, <1>2, <1>5 DEF ProbeInv, SetterInv, ConfigInv, Reckoned
<1>9. ~Pending'
  BY <1>1 DEF Pending
<1>10. PendingInv'
  <2>1. bram_write'.en \in Bit
    BY <1>3
  <2>2. key[1] = "enable" /\ Made >= 1 => ~Pending
    BY <1>2 DEF PendingInv, Pending
  <2>3. key[1] = "enable" /\ Made >= 2 => Made >= 1
    BY <1>2, LengthIsNat DEF Made, HostTypeOK
  <2> QED
    BY <1>1, <1>2, <1>3, <1>5, <1>9, <2>1, <2>2, <2>3 DEF PendingInv, Bit
<1>11. VectorInv'
  <2>1. \A e \in Entries, s \in Segments : Stored(e, s)' = Stored(e, s)
    BY <1>3, <1>9 DEF Stored
  <2>2. Entries' = Entries /\ Segments' = Segments
    BY DEF Entries, Segments
  <2> QED
    BY <1>1, <1>2, <1>5, <2>1 DEF VectorInv, Arrived, Fixed
<1> QED
  BY <1>4, <1>6, <1>7, <1>10, <1>11, <1>8 DEF HostInv
-----------------------------------------------------------------------------
(* The operator starts an invocation *)

LEMMA ProbeList ==
    /\ Probe \in Seq(Accesses) /\ Len(Probe) = 7
    /\ \A i \in 1 .. 7 : ProbeItem(i, Probe[i])
<1> DEFINE one == << Access("save", 0, 0) >>
           two == SetConfigField("cfg_en", 1)
           three == SetConfigField("brp_nomi", ProbeBrp)
           four == << Access("check", 0, 0), Access("restore", 0, 0) >>
<1>1. /\ Access("save", 0, 0) \in Accesses
      /\ Access("check", 0, 0) \in Accesses /\ Access("restore", 0, 0) \in Accesses
  BY DEF Access, Accesses, AccessValues
<1>2. /\ one \in Seq(Accesses) /\ Len(one) = 1 /\ one[1] = Access("save", 0, 0)
      /\ four \in Seq(Accesses) /\ Len(four) = 2
      /\ four[1] = Access("check", 0, 0) /\ four[2] = Access("restore", 0, 0)
  <2> HIDE DEF Accesses
  <2> QED
    BY <1>1
<1>3. ASSUME NEW f \in {"cfg_en", "brp_nomi"}, NEW v \in Nat
      PROVE  LET s == SetConfigField(f, v)
             IN  /\ s \in Seq(Accesses) /\ Len(s) = 2
                 /\ s[1] = Access("read", "GLOBAL_CONFIG", 0) /\ s[2] = Access(f, 0, v)
  BY FieldFacts, SetterAccesses
<1>4. /\ two \in Seq(Accesses) /\ Len(two) = 2
      /\ two[1] = Access("read", "GLOBAL_CONFIG", 0) /\ two[2] = Access("cfg_en", 0, 1)
      /\ three \in Seq(Accesses) /\ Len(three) = 2
      /\ three[1] = Access("read", "GLOBAL_CONFIG", 0)
      /\ three[2] = Access("brp_nomi", 0, ProbeBrp)
  BY <1>3, OperatorAssumption
<1>5. Probe = ((one \o two) \o three) \o four
  BY DEF Probe
<1> HIDE DEF one, two, three, four
<1> DEFINE five == one \o two
           six == five \o three
<1>6. Joins(five, one, two, 1, 3)
  BY <1>2, <1>4, Joined DEF Joins
<1>7. Joins(six, five, three, 3, 5)
  BY <1>4, <1>6, Joined DEF Joins
<1>8. Joins(six \o four, six, four, 5, 7)
  <2> HIDE DEF six
  <2>1. six \in Seq(Accesses) /\ Len(six) = 5
    BY <1>7 DEF Joins
  <2>2. Joins(six \o four, six, four, Len(six), Len(six) + Len(four))
    BY <1>2, <2>1, Joined
  <2>3. Len(six) + Len(four) = 7
    BY <1>2, <2>1
  <2> QED
    BY <2>1, <2>2, <2>3
<1>9. /\ Probe[1] = one[1] /\ Probe[2] = two[1] /\ Probe[3] = two[2]
      /\ Probe[4] = three[1] /\ Probe[5] = three[2]
      /\ Probe[6] = four[1] /\ Probe[7] = four[2]
  BY <1>5, <1>6, <1>7, <1>8 DEF Joins
<1>10. \A i \in 1 .. 7 : ProbeItem(i, Probe[i])
  BY <1>2, <1>4, <1>9 DEF ProbeItem, Access
<1> QED
  BY <1>5, <1>8, <1>10 DEF Joins

\* A command changes what the operator asked for in its own part only.
Keeps(command, result) ==
    /\ \A f \in TimingFields :
        result.timing[f] = IF f \in Timed(command) THEN {command[2][f]} ELSE want.timing[f]
    /\ \A e \in Entries :
        /\ command /= << "set_fi", e >> => result.slots[e] = want.slots[e]
        /\ command /= << "set_vec", e >> => result.vectors[e] = want.vectors[e]

LEMMA LaunchStep ==
    ASSUME HostInv, NEW command \in Keys, NEW accesses \in Seq(Accesses),
           NEW result \in Wants, Launch(command, accesses, result),
           Keeps(command, result),
           command[1] = "enable" => mode = "off" /\ owed = {} /\ unset = {},
           command \in Programming => mode = "off",
           Length' = Len(accesses),
           \A i \in 1 .. Len(accesses) : CommandItem(i + 7, accesses[i])'
    PROVE  HostInv'
<1>1. /\ HostTypeOK /\ TodoInv /\ WantInv /\ ProbeInv /\ SetterInv /\ ConfigInv
      /\ SlotInv /\ PendingInv /\ VectorInv
  BY DEF HostInv
<1>2. /\ ~Busy /\ todo' = Probe \o accesses /\ key' = command /\ wanted' = result
      /\ UNCHANGED << muVars, id_mem, config, mu, was_written, base,
                      cfg_save, busVars, mode, owed, unset, want >>
  BY DEF Launch, Busy
<1>3. key = Idle /\ wanted = want
  BY <1>1, <1>2 DEF WantInv
<1> DEFINE n == Len(accesses)
<1>4. n \in Nat
  OBVIOUS
<1>5. Joins(todo', Probe, accesses, 7, 7 + n)
  <2>1. Joins(Probe \o accesses, Probe, accesses, 7, 7 + Len(accesses))
    <3>1. Probe \in Seq(Accesses) /\ Len(Probe) = 7
      BY ProbeList
    <3>2. Joins(Probe \o accesses, Probe, accesses, Len(Probe), Len(Probe) + n)
      BY <3>1, Joined
    <3> QED
      BY <3>1, <3>2
  <2> QED
    BY <1>2, <2>1
<1>6. Made' = 0 /\ Length' = n /\ Len(todo') = 7 + n
  BY <1>4, <1>5 DEF Made, Joins
<1> HIDE DEF n
<1>7. HostTypeOK'
  <2>1. todo' \in Seq(Accesses)
    BY <1>5 DEF Joins
  <2>2. ConfigTypeOK'
    BY <1>1, <1>2 DEF HostTypeOK, ConfigTypeOK, Value
  <2> QED
    BY <1>1, <1>2, <2>1, <2>2 DEF HostTypeOK, muVars, busVars, Banks
<1>8. TodoInv'
  <2>1. SUFFICES ASSUME NEW i \in 1 .. 7 + n
        PROVE  Item(i, todo[i])'
    BY <1>4, <1>6 DEF TodoInv
  <2>2. CASE i <= 7
    <3>1. todo'[i] = Probe[i] /\ i \in 1 .. 7
      BY <1>4, <1>5, <2>2 DEF Joins
    <3> QED
      BY <2>2, <3>1, ProbeList DEF Item, ProbeItem
  <2>3. CASE ~(i <= 7)
    <3>1. todo'[i] = accesses[i - 7] /\ i - 7 \in 1 .. n /\ (i - 7) + 7 = i
      BY <1>4, <1>5, <2>3 DEF Joins
    <3>2. CommandItem((i - 7) + 7, accesses[i - 7])'
      BY <3>1 DEF n
    <3>3. CommandItem(i, accesses[i - 7])'
      BY <3>1, <3>2
    <3> QED
      BY <2>3, <3>1, <3>3 DEF Item
  <2> QED
    BY <2>2, <2>3
<1>9. Busy'
  <2>1. todo' /= << >>
    BY <1>4, <1>6
  <2> QED
    BY <2>1 DEF Busy
<1>10. \A f : Value(f)' = Value(f) /\ Settled(f) = Value(f) /\ Settled(f)' = Value(f)
  BY <1>2, <1>6 DEF Settled, Value
<1>11. WantInv'
  BY <1>2, <1>9 DEF WantInv, Keeps
<1>12. ProbeInv' /\ SetterInv'
  BY <1>6 DEF ProbeInv, SetterInv
<1>13. ConfigInv'
  <2>1. Idle \notin Programming
    BY DEF Idle, Programming
  <2>2. \A f : Reckoned(f) => Reckoned(f)'
    BY <1>2, <1>3, <1>10 DEF Reckoned
  <2> QED
    BY <1>1, <1>2, <1>3, <1>10, <2>1, <2>2 DEF ConfigInv, busVars
<1>14. SlotInv'
  <2>1. \A e \in Entries : key /= << "set_fi", e >>
    BY <1>3 DEF Idle
  <2> QED
    BY <1>1, <1>2, <1>6, <2>1 DEF SlotInv, Fixed
<1>15. PendingInv'
  BY <1>1, <1>2, <1>6, <1>10 DEF PendingInv, Pending, muVars
<1>16. VectorInv'
  <2>1. \A e \in Entries : key /= << "set_vec", e >>
    BY <1>3 DEF Idle
  <2>2. \A e, s : Stored(e, s)' = Stored(e, s)
    BY <1>2 DEF Stored, Pending, Written, WideWord, muVars
  <2> QED
    BY <1>1, <1>2, <1>6, <2>1, <2>2 DEF VectorInv, Fixed
<1> QED
  BY <1>7, <1>8, <1>11, <1>12, <1>13, <1>14, <1>15, <1>16 DEF HostInv

LEMMA RunConfiguration ==
    ASSUME HostInv, RunStatus \/ RunEnable \/ RunDisable \/ RunConfCan \/ RunConfFi
    PROVE  HostInv'
<1>1. HostTypeOK /\ want \in Wants
  BY DEF HostInv, HostTypeOK
<1>2. /\ << "status", 0 >> \in Keys /\ << "enable", 0 >> \in Keys
      /\ << "disable", 0 >> \in Keys
      /\ << "status", 0 >> \notin Programming /\ << "enable", 0 >> \notin Programming
      /\ << "disable", 0 >> \notin Programming
  BY DEF Keys, Programming
<1>3. Keeps(<< "status", 0 >>, want) /\ Keeps(<< "enable", 0 >>, want)
      /\ Keeps(<< "disable", 0 >>, want)
  BY DEF Keeps, Timed
<1>4. CASE RunStatus
  <2>1. Launch(<< "status", 0 >>, << >>, want) /\ << >> \in Seq(Accesses)
    BY <1>4 DEF RunStatus
  <2>2. Length' = 0 /\ Len(<< >>) = 0
    BY <2>1 DEF Launch, Length, Configures
  <2>3. \A i \in 1 .. Len(<< >>) : CommandItem(i + 7, << >>[i])'
    BY <2>2
  <2>4. << "status", 0 >>[1] /= "enable"
    OBVIOUS
  <2> QED
    BY <1>1, <1>2, <1>3, <2>1, <2>2, <2>3, <2>4, LaunchStep
<1>5. ASSUME NEW command \in Keys, Configures(command), command \notin Programming,
             NEW result \in Wants, Keeps(command, result),
             Launch(command, Setters(command), result),
             command[1] = "enable" => mode = "off" /\ owed = {} /\ unset = {}
      PROVE  HostInv'
  <2> DEFINE u == Setters(command)
  <2>1. u \in Seq(Accesses)
    BY <1>5, CommandSets DEF Sets
  <2>2. key' = command
    BY <1>5 DEF Launch
  <2>3. Length' = Len(u)
    BY <1>5, <2>2 DEF Length, Configures
  <2>4. \A i \in 1 .. Len(u) : CommandItem(i + 7, u[i])'
    <3>1. SUFFICES ASSUME NEW i \in 1 .. Len(u)
          PROVE  CommandItem(i + 7, u[i])'
      OBVIOUS
    <3>2. (i + 7) - 7 = i
      BY <2>1
    <3>3. Configures(key)' /\ Setters(key)' = u
      BY <1>5, <2>2
    <3>4. key'[1] \notin {"set_fi", "set_vec"}
      BY <1>5, <2>2 DEF Configures
    <3> QED
      BY <3>2, <3>3, <3>4 DEF CommandItem
  <2> HIDE DEF u
  <2>5. Launch(command, u, result)
    BY <1>5 DEF u
  <2> QED
    BY <1>5, <2>1, <2>3, <2>4, <2>5, LaunchStep
<1>6. CASE RunEnable
  <2>1. Setters(<< "enable", 0 >>) = Enable /\ Configures(<< "enable", 0 >>)
    BY DEF Setters, Configures
  <2> QED
    BY <1>1, <1>2, <1>3, <1>5, <1>6, <2>1 DEF RunEnable
<1>7. CASE RunDisable
  <2>1. Setters(<< "disable", 0 >>) = Disable /\ Configures(<< "disable", 0 >>)
    BY DEF Setters, Configures
  <2> QED
    BY <1>1, <1>2, <1>3, <1>5, <1>7, <2>1 DEF RunDisable
<1>8. ASSUME NEW args, \A f \in DOMAIN args : args[f] \in Nat,
             NEW command, Timed(command) = DOMAIN args, command[2] = args,
             command \notin Programming
      PROVE  Set(args) \in Wants /\ Keeps(command, Set(args))
  <2> DEFINE timing == [f \in TimingFields |->
                           IF f \in DOMAIN args THEN {args[f]} ELSE want.timing[f]]
  <2>1. Set(args) = [want EXCEPT !.timing = timing]
    BY DEF Set
  <2>2. timing \in [TimingFields -> SUBSET Nat]
    BY <1>1, <1>8 DEF Wants
  <2>3. \A f \in TimingFields :
            timing[f] = IF f \in DOMAIN args THEN {args[f]} ELSE want.timing[f]
    OBVIOUS
  <2> HIDE DEF timing
  <2>4. Set(args) \in Wants /\ Set(args).timing = timing
        /\ Set(args).slots = want.slots /\ Set(args).vectors = want.vectors
    BY <1>1, <2>1, <2>2 DEF Wants
  <2> QED
    BY <1>8, <2>3, <2>4 DEF Keeps
<1>9. CASE RunConfCan
  <2>1. PICK args \in CanOptions : Launch(<< "conf_can", args >>, ConfCan(args), Set(args))
    BY <1>9 DEF RunConfCan
  <2>2. PICK command : command = << "conf_can", args >>
    OBVIOUS
  <2>3. command[1] = "conf_can" /\ command[2] = args
    BY <2>2
  <2>4. command \in Keys /\ command \notin Programming /\ Configures(command)
        /\ Timed(command) = DOMAIN args /\ Setters(command) = ConfCan(args)
    BY <2>2, <2>3 DEF Keys, Programming, Configures, Timed, Setters
  <2>5. Set(args) \in Wants /\ Keeps(command, Set(args))
    BY <1>8, <2>3, <2>4, OperatorAssumption
  <2> QED
    BY <1>5, <2>1, <2>2, <2>3, <2>4, <2>5
<1>10. CASE RunConfFi
  <2>1. PICK args \in FiOptions : Launch(<< "conf_fi", args >>, ConfFi(args), Set(args))
    BY <1>10 DEF RunConfFi
  <2>2. PICK command : command = << "conf_fi", args >>
    OBVIOUS
  <2>3. command[1] = "conf_fi" /\ command[2] = args
    BY <2>2
  <2>4. command \in Keys /\ command \notin Programming /\ Configures(command)
        /\ Timed(command) = DOMAIN args /\ Setters(command) = ConfFi(args)
    BY <2>2, <2>3 DEF Keys, Programming, Configures, Timed, Setters
  <2>5. Set(args) \in Wants /\ Keeps(command, Set(args))
    BY <1>8, <2>3, <2>4, OperatorAssumption
  <2> QED
    BY <1>5, <2>1, <2>2, <2>3, <2>4, <2>5
<1> QED
  BY <1>4, <1>6, <1>7, <1>9, <1>10

\* The one-hot code of a fault is read by the core as the fault.
FaultFrame(f) ==
    [type |-> ParseFiType(OneHot[f.kind]),
     field |-> IF f.kind \in {"none", "dlc", "data_crc"} THEN 0 ELSE f.field,
     meta |-> IF f.kind = "none" THEN 0 ELSE f.meta % 512]

LEMMA FaultMeant ==
    ASSUME NEW f \in FaultValues
    PROVE  FaultFrame(f) \in FiFrames /\ FaultFrame(f) = Meant(f)
<1>1. f.kind \in {"none", "bit", "dlc", "dyn_stuff", "fix_stuff", "data_crc"}
      /\ f.field \in 0 .. 7 /\ f.meta \in Nat
  BY DEF FaultValues, Kinds, OneHot
<1>2. ParseFiType(OneHot[f.kind]) = Meaning[f.kind]
      /\ Meaning[f.kind] \in FiTypes
  <2>1. CASE f.kind = "none"
    BY <2>1 DEF OneHot, Meaning, ParseFiType, FiTypes
  <2>2. CASE f.kind = "bit"
    BY <2>2 DEF OneHot, Meaning, ParseFiType, FiTypes
  <2>3. CASE f.kind = "dlc"
    BY <2>3 DEF OneHot, Meaning, ParseFiType, FiTypes
  <2>4. CASE f.kind = "dyn_stuff"
    BY <2>4 DEF OneHot, Meaning, ParseFiType, FiTypes
  <2>5. CASE f.kind = "fix_stuff"
    BY <2>5 DEF OneHot, Meaning, ParseFiType, FiTypes
  <2>6. CASE f.kind = "data_crc"
    BY <2>6 DEF OneHot, Meaning, ParseFiType, FiTypes
  <2> QED
    BY <1>1, <2>1, <2>2, <2>3, <2>4, <2>5, <2>6
<1>3. f.meta % 512 \in 0 .. 511
  BY <1>1
<1>4. f.kind \in {"none", "dlc", "data_crc"} <=> f.kind \notin {"bit", "dyn_stuff", "fix_stuff"}
  BY <1>1
<1>5. FaultFrame(f) = Meant(f)
  BY <1>2, <1>4 DEF FaultFrame, Meant
<1> QED
  BY <1>1, <1>2, <1>3, <1>5 DEF Meant, FiFrames

LEMMA RunSlot ==
    ASSUME HostInv, \A line \in FiLines : line.mask /= NoMask, RunSetFi
    PROVE  HostInv'
<1>1. PICK line \in FiLines :
        /\ mode = "off"
        /\ Launch(<< "set_fi", line.idx >>,
                  SetFi(line.idx, line.value, line.mask, line.fault),
              [want EXCEPT !.slots = [e \in Entries |->
                IF e = line.idx
                THEN [value |-> IdPart(line.value), fault |-> line.fault,
                      mask |-> IF line.mask = NoMask THEN NoMask ELSE IdPart(line.mask)]
                ELSE @[e]]])
  BY DEF RunSetFi
<1>2. line.idx \in Nat /\ line.fault \in FaultValues /\ line.mask /= NoMask
  BY OperatorAssumption DEF FaultValues, Kinds
<1> DEFINE idx == line.idx
           v == IdPart(line.value)
           m == IdPart(line.mask)
           f == line.fault
           asked == [value |-> v, mask |-> m, fault |-> f]
           slots == [e \in Entries |-> IF e = idx THEN asked ELSE want.slots[e]]
           result == [want EXCEPT !.slots = slots]
           command == << "set_fi", idx >>
           accesses == SetFi(idx, line.value, line.mask, f)
<1>3. Launch(command, accesses, result)
  <2>1. asked = [value |-> v, fault |-> f,
                 mask |-> IF line.mask = NoMask THEN NoMask ELSE IdPart(line.mask)]
    BY <1>2
  <2> QED
    BY <1>1, <2>1
<1>4. command \in Programming /\ command \in Keys /\ command[1] /= "enable"
  BY <1>2 DEF Keys, Programming
<1>5. v \in MatchValues /\ m \in MaskValues
  BY DEF MatchValues, MaskValues
<1> HIDE DEF v, m, f
<1>6. result \in Wants /\ result.slots = slots /\ result.timing = want.timing
      /\ result.vectors = want.vectors
  <2>1. want \in Wants
    BY DEF HostInv, HostTypeOK
  <2>2. asked \in [value : MatchValues, mask : MaskValues, fault : FaultValues]
    BY <1>2, <1>5 DEF f
  <2>3. slots \in [Entries -> [value : MatchValues, mask : MaskValues, fault : FaultValues]]
    <3> HIDE DEF asked
    <3> QED
      BY <2>1, <2>2 DEF Wants
  <2> HIDE DEF slots
  <2> QED
    BY <2>1, <2>3 DEF Wants
<1>7. Keeps(command, result)
  BY <1>6 DEF Keeps, Timed
<1>8. key' = command /\ wanted' = result
  BY <1>3 DEF Launch
<1> HIDE DEF result
<1>9. CASE idx \notin Entries
  <2>1. accesses = << >> /\ Len(<< >>) = 0 /\ << >> \in Seq(Accesses)
    BY <1>9 DEF SetFi
  <2>2. Length' = Len(<< >>)
    BY <1>8, <1>9, <2>1 DEF Length, Entries, Configures
  <2>3. \A i \in 1 .. Len(<< >>) : CommandItem(i + 7, << >>[i])'
    BY <2>1
  <2>4. Launch(command, << >>, result)
    BY <1>3, <2>1
  <2> HIDE DEF command
  <2> QED
    BY <1>1, <1>4, <1>6, <1>7, <2>1, <2>2, <2>3, <2>4, LaunchStep
<1>10. CASE idx \in Entries
  <2> DEFINE first == Access("value", idx, v)
             second == Access("mask", idx, m)
             third == Access("fi", idx, FaultFrame(f))
  <2>1. accesses = << first, second, third >>
    BY <1>2, <1>10 DEF SetFi, FaultFrame, v, m, f
  <2>2. FaultFrame(f) \in FiFrames /\ FaultFrame(f) = Meant(f)
    BY <1>2, FaultMeant DEF f
  <2>3. first \in Accesses /\ second \in Accesses /\ third \in Accesses
    BY <1>2, <1>5, <2>2 DEF Access, Accesses, AccessValues
  <2>4. accesses \in Seq(Accesses) /\ Len(accesses) = 3
        /\ accesses[1] = first /\ accesses[2] = second /\ accesses[3] = third
    <3> HIDE DEF first, second, third, accesses
    <3> QED
      BY <2>1, <2>3
  <2>5. Length' = 3
    BY <1>8, <1>10 DEF Length, Entries, Configures
  <2>6. wanted'.slots[idx] = asked
    BY <1>6, <1>8, <1>10
  <2> HIDE DEF accesses
  <2>7. ASSUME NEW i \in 1 .. 3
        PROVE  CommandItem(i + 7, accesses[i])'
    <3>1. SlotItem(i + 7, accesses[i], idx)'
      <4>1. CASE i = 1
        BY <2>4, <2>6, <4>1 DEF SlotItem, Access
      <4>2. CASE i = 2
        BY <2>4, <2>6, <4>2 DEF SlotItem, Access
      <4>3. CASE i = 3
        BY <2>2, <2>4, <2>6, <4>3 DEF SlotItem, Access
      <4> QED
        BY <4>1, <4>2, <4>3
    <3> QED
      BY <1>8, <3>1 DEF CommandItem, Configures
  <2> HIDE DEF command
  <2> QED
    BY <1>1, <1>3, <1>4, <1>6, <1>7, <2>4, <2>5, <2>7, LaunchStep
<1> QED
  BY <1>9, <1>10

\* Four accesses for each word.
LEMMA Turns ==
    ASSUME NEW n \in Nat \ {0}
    PROVE  /\ Turn(n) \in 1 .. 4 /\ WordAt(n) \in Nat \ {0}
           /\ n <= 4 * SegCnt => WordAt(n) <= SegCnt /\ SegCnt - WordAt(n) \in Segments
           /\ \/ Turn(n) < 4 /\ Turn(n + 1) = Turn(n) + 1 /\ WordAt(n + 1) = WordAt(n)
              \/ Turn(n) = 4 /\ Turn(n + 1) = 1 /\ WordAt(n + 1) = WordAt(n) + 1
<1>1. n - 1 \in Nat /\ (n + 1) - 1 = (n - 1) + 1 /\ SegCnt \in Nat
  BY MemoryAssumption
<1> DEFINE k == n - 1
<1>2. \/ (k + 1) \div 4 = k \div 4 /\ (k + 1) % 4 = (k % 4) + 1 /\ k % 4 < 3
      \/ (k + 1) \div 4 = k \div 4 + 1 /\ (k + 1) % 4 = 0 /\ k % 4 = 3
  BY <1>1
<1>3. k \div 4 \in Nat /\ k % 4 \in 0 .. 3
  BY <1>1
<1>4. ASSUME k < 4 * SegCnt
      PROVE  k \div 4 < SegCnt
  <2>1. k - 4 * (k \div 4) \in 0 .. 3
    BY <1>1
  <2> QED
    BY <1>1, <1>3, <1>4, <2>1
<1>5. Turn(n) = 1 + (k % 4) /\ WordAt(n) = 1 + k \div 4
      /\ Turn(n + 1) = 1 + ((k + 1) % 4) /\ WordAt(n + 1) = 1 + (k + 1) \div 4
  BY <1>1 DEF Turn, WordAt
<1>6. n <= 4 * SegCnt => k < 4 * SegCnt
  BY <1>1
<1> HIDE DEF k
<1>7. Turn(n) \in 1 .. 4 /\ WordAt(n) \in Nat \ {0}
  BY <1>3, <1>5
<1>8. n <= 4 * SegCnt => WordAt(n) <= SegCnt /\ SegCnt - WordAt(n) \in Segments
  BY <1>1, <1>3, <1>4, <1>5, <1>6 DEF Segments
<1>9. \/ Turn(n) < 4 /\ Turn(n + 1) = Turn(n) + 1 /\ WordAt(n + 1) = WordAt(n)
      \/ Turn(n) = 4 /\ Turn(n + 1) = 1 /\ WordAt(n + 1) = WordAt(n) + 1
  BY <1>2, <1>3, <1>5
<1> QED
  BY <1>7, <1>8, <1>9

LEMMA RunVector ==
    ASSUME HostInv, RunSetVec
    PROVE  HostInv'
<1>1. PICK line \in VecLines :
        /\ mode = "off"
        /\ Launch(<< "set_vec", line.idx >>, SetVec(line.idx, line.words),
              [want EXCEPT !.vectors = [e \in Entries |->
                IF e = line.idx THEN [s \in Segments |-> Word(line.words, SegCnt - s)]
                ELSE @[e]]])
  BY DEF RunSetVec
<1> DEFINE idx == line.idx
           words == line.words
           asked == [s \in Segments |-> Word(words, SegCnt - s)]
           vectors == [e \in Entries |-> IF e = idx THEN asked ELSE want.vectors[e]]
           result == [want EXCEPT !.vectors = vectors]
           command == << "set_vec", idx >>
           accesses == SetVec(idx, words)
           access(n) == << Access("data", 0, Word(words, WordAt(n))),
                           Access("addr", 0, idx * SegStride + SegCnt - WordAt(n)),
                           Access("valid", 0, 1), Access("valid", 0, 0) >>[Turn(n)]
           all == 4 * SegCnt
<1>2. Launch(command, accesses, result)
  BY <1>1
<1>3. idx \in Nat /\ command \in Programming /\ command \in Keys /\ command[1] /= "enable"
  BY OperatorAssumption DEF Keys, Programming
<1> HIDE DEF idx
<1>4. \A i \in Int : Word(words, i) \in Words
  <2>1. words \in Seq(Words) /\ 0 \in Words
    BY OperatorAssumption, MemoryAssumption
  <2> HIDE DEF words
  <2> QED
    BY <2>1 DEF Word
<1> HIDE DEF words
<1>5. SegCnt \in Nat /\ SegStride \in Nat /\ all \in Nat
  BY MemoryAssumption
<1>6. result \in Wants /\ result.vectors = vectors /\ result.timing = want.timing
      /\ result.slots = want.slots
  <2>1. want \in Wants
    BY DEF HostInv, HostTypeOK
  <2>2. asked \in [Segments -> Words]
    BY <1>4, <1>5 DEF Segments
  <2>3. vectors \in [Entries -> [Segments -> Words]]
    <3> HIDE DEF asked
    <3> QED
      BY <2>1, <2>2 DEF Wants
  <2> HIDE DEF vectors
  <2> QED
    BY <2>1, <2>3 DEF Wants
<1>7. Keeps(command, result)
  BY <1>6 DEF Keeps, Timed
<1>8. key' = command /\ wanted' = result /\ Length' = all
  BY <1>2 DEF Launch, Length, Configures, all
<1>9. ASSUME NEW n \in 1 .. all
      PROVE  /\ access(n) \in Accesses /\ Turn(n) \in 1 .. 4
             /\ Turn(n) = 1 => access(n) = Access("data", 0, Word(words, WordAt(n)))
             /\ Turn(n) = 2 =>
                  access(n) = Access("addr", 0, idx * SegStride + (SegCnt - WordAt(n)))
             /\ Turn(n) = 3 => access(n) = Access("valid", 0, 1)
             /\ Turn(n) = 4 => access(n) = Access("valid", 0, 0)
             /\ SegCnt - WordAt(n) \in Segments
             /\ Word(words, WordAt(n)) \in Words
  <2>1. n \in Nat \ {0} /\ n <= 4 * SegCnt
    BY <1>5
  <2>2. Turn(n) \in 1 .. 4 /\ WordAt(n) \in Nat /\ SegCnt - WordAt(n) \in Segments
        /\ SegCnt - WordAt(n) \in Nat
    BY <1>5, <2>1, Turns DEF Segments
  <2> DEFINE addr == idx * SegStride + (SegCnt - WordAt(n))
  <2>3. addr \in Nat /\ idx * SegStride + SegCnt - WordAt(n) = addr
    BY <1>3, <1>5, <2>2
  <2>4. /\ Access("data", 0, Word(words, WordAt(n))) \in Accesses
        /\ Access("addr", 0, addr) \in Accesses
        /\ Access("valid", 0, 1) \in Accesses /\ Access("valid", 0, 0) \in Accesses
    BY <1>4, <2>2, <2>3 DEF Access, Accesses, AccessValues
  <2> HIDE DEF addr
  <2>5. access(n) = << Access("data", 0, Word(words, WordAt(n))),
                       Access("addr", 0, addr),
                       Access("valid", 0, 1), Access("valid", 0, 0) >>[Turn(n)]
    BY <2>3
  <2> HIDE DEF access
  <2>6. CASE Turn(n) = 1
    BY <1>4, <2>2, <2>4, <2>5, <2>6 DEF addr
  <2>7. CASE Turn(n) = 2
    BY <1>4, <2>2, <2>4, <2>5, <2>7 DEF addr
  <2>8. CASE Turn(n) = 3
    BY <1>4, <2>2, <2>4, <2>5, <2>8 DEF addr
  <2>9. CASE Turn(n) = 4
    BY <1>4, <2>2, <2>4, <2>5, <2>9 DEF addr
  <2> QED
    BY <2>2, <2>6, <2>7, <2>8, <2>9
<1>10. accesses = [n \in 1 .. all |-> access(n)]
  BY DEF SetVec, idx, words
<1> HIDE DEF result, accesses, access, all
<1>11. accesses \in Seq(Accesses) /\ Len(accesses) = all
       /\ \A n \in 1 .. all : accesses[n] = access(n)
  <2>1. accesses \in [1 .. all -> Accesses]
    BY <1>9, <1>10
  <2> QED
    BY <1>5, <1>10, <2>1
<1>12. ASSUME NEW n \in 1 .. all
       PROVE  CommandItem(n + 7, accesses[n])'
  <2>1. (n + 7) - 7 = n /\ SegAt(n + 7) = SegCnt - WordAt(n)
    BY <1>5 DEF SegAt
  <2>2. accesses[n] = access(n)
    BY <1>11
  <2>3. idx \in Entries => wanted'.vectors[idx] = asked
    BY <1>6, <1>8
  <2>4. idx \in Entries =>
          wanted'.vectors[idx][SegCnt - WordAt(n)] = Word(words, WordAt(n))
    <3>1. SegCnt - WordAt(n) \in Segments
      BY <1>9
    <3>2. SegCnt - (SegCnt - WordAt(n)) = WordAt(n)
      BY <1>5, Turns
    <3> QED
      BY <2>3, <3>1, <3>2
  <2>5. VectorItem(n + 7, accesses[n], idx)'
    <3>1. CASE Turn(n) = 1
      BY <1>9, <2>1, <2>2, <2>4, <3>1 DEF VectorItem, Access
    <3>2. CASE Turn(n) = 2
      BY <1>9, <2>1, <2>2, <3>2 DEF VectorItem, Access
    <3>3. CASE Turn(n) = 3
      BY <1>9, <2>1, <2>2, <3>3 DEF VectorItem, Access
    <3>4. CASE Turn(n) = 4
      BY <1>9, <2>1, <2>2, <3>4 DEF VectorItem, Access
    <3> QED
      BY <1>9, <3>1, <3>2, <3>3, <3>4
  <2> QED
    BY <1>8, <2>5 DEF CommandItem, Configures
<1> HIDE DEF command
<1> QED
  BY <1>1, <1>2, <1>3, <1>6, <1>7, <1>8, <1>11, <1>12, LaunchStep
-----------------------------------------------------------------------------
(* An invocation is killed *)

\* A core that the probe may leave enabled has its own configuration, and the
\* probe touches two fields only.
LEMMA SettledNow ==
    ASSUME HostInv
    PROVE  /\ \A f \in Fields : Value(f) \in Nat
           /\ Settled("cfg_en") \in Bit /\ Value("cfg_en") \in Bit
           /\ Settled("cfg_en") = 1 => Value("cfg_en") = 1
           /\ Value("cfg_en") = 0 => \A f \in Fields : Value(f) = Settled(f)
           /\ \A f \in Fields \ {"cfg_en", "brp_nomi"} : Value(f) = Settled(f)
<1>1. HostTypeOK /\ ConfigTypeOK /\ ProbeInv
  BY DEF HostInv, HostTypeOK
<1>2. \A f \in Fields : Value(f) \in Nat
  BY <1>1, ValueTypes
<1>3. Value("cfg_en") \in Bit
  BY <1>1 DEF ConfigTypeOK
<1>4. CASE Busy /\ Made \in 1 .. 6
  <2>1. /\ cfg_save["cfg_en"] \in Bit
        /\ \A f \in FieldsOf("GLOBAL_CONFIG") \ {"cfg_en", "brp_nomi"} :
              Value(f) = cfg_save[f]
        /\ Made \in {1, 2} => config["GLOBAL_CONFIG"] = cfg_save
        /\ Made \in 3 .. 6 => Value("cfg_en") = 1
    BY <1>1, <1>4 DEF ProbeInv
  <2>2. Made \in {1, 2} \/ Made \in 3 .. 6
    BY <1>4
  <2>3. \A f : Settled(f) = IF RegisterOf[f] = "GLOBAL_CONFIG" THEN cfg_save[f] ELSE Value(f)
    BY <1>4 DEF Settled
  <2>4. \A f \in Fields : RegisterOf[f] = "GLOBAL_CONFIG" => f \in FieldsOf("GLOBAL_CONFIG")
    BY DEF FieldsOf
  <2>5. Settled("cfg_en") \in Bit
    BY <2>1, <2>3, FieldFacts
  <2>6. \A f \in Fields \ {"cfg_en", "brp_nomi"} : Value(f) = Settled(f)
    BY <2>1, <2>3, <2>4
  <2>7. Made \in {1, 2} => \A f \in Fields : Value(f) = Settled(f)
    BY <2>1, <2>3 DEF Value
  <2>8. Made \in 3 .. 6 => Value("cfg_en") = 1
    BY <2>1
  <2>9. "cfg_en" \in Fields
    BY FieldFacts
  <2> QED
    BY <1>2, <1>3, <2>2, <2>5, <2>6, <2>7, <2>8, <2>9 DEF Bit
<1>5. CASE ~(Busy /\ Made \in 1 .. 6)
  <2>1. \A f : Settled(f) = Value(f)
    BY <1>5 DEF Settled
  <2> QED
    BY <1>2, <1>3, <2>1
<1> QED
  BY <1>4, <1>5

LEMMA KillStep ==
    ASSUME HostInv, Kill
    PROVE  HostInv'
<1>1. /\ HostTypeOK /\ TodoInv /\ WantInv /\ ProbeInv /\ SetterInv /\ ConfigInv
      /\ SlotInv /\ PendingInv /\ VectorInv
  BY DEF HostInv
<1> DEFINE timing == [f \in TimingFields |-> want.timing[f] \cup wanted.timing[f]]
<1>2. /\ todo' = << >> /\ mode' = "unsure" /\ key' = Idle
      /\ want' = [want EXCEPT !.timing = timing] /\ wanted' = want'
      /\ UNCHANGED << muVars, id_mem, config, mu, was_written, busVars >>
      /\ owed' = owed \cup (IF key[1] \in {"set_fi", "set_vec"} THEN {key} ELSE {})
      /\ "brp_nomi" \in unset'
  BY DEF Kill
<1>3. key \in Programming <=> key[1] \in {"set_fi", "set_vec"}
  BY <1>1 DEF HostTypeOK, Keys, Programming, Idle
<1>4. /\ want' \in Wants /\ want'.slots = want.slots /\ want'.vectors = want.vectors
      /\ \A f \in TimingFields : want'.timing[f] = want.timing[f] \cup wanted.timing[f]
  <2>1. want \in Wants /\ wanted \in Wants
    BY <1>1 DEF HostTypeOK
  <2>2. timing \in [TimingFields -> SUBSET Nat]
    BY <2>1 DEF Wants
  <2>3. \A f \in TimingFields : timing[f] = want.timing[f] \cup wanted.timing[f]
    OBVIOUS
  <2> HIDE DEF timing
  <2> QED
    BY <1>2, <2>1, <2>2, <2>3 DEF Wants
<1> HIDE DEF timing
<1>5. HostTypeOK'
  <2>1. todo' \in Seq(Accesses)
    BY <1>2
  <2>2. Idle \in Keys /\ owed' \in SUBSET Programming
    BY <1>1, <1>2, <1>3 DEF Keys, HostTypeOK
  <2>3. ConfigTypeOK'
    BY <1>1, <1>2 DEF HostTypeOK, ConfigTypeOK, Value
  <2> QED
    BY <1>1, <1>2, <1>4, <2>1, <2>2, <2>3 DEF HostTypeOK, muVars, busVars, Banks
<1>6. ~Busy' /\ \A f : Value(f)' = Value(f) /\ Settled(f)' = Value(f)
  BY <1>2 DEF Busy, Settled, Value
<1>7. TodoInv' /\ WantInv' /\ ProbeInv' /\ SetterInv'
  <2>1. Len(todo') = 0 /\ Length' = 0
    BY <1>2 DEF Length, Idle, Configures
  <2>2. TodoInv'
    BY <2>1 DEF TodoInv
  <2>3. Timed(Idle) = {}
    BY DEF Timed, Idle
  <2> QED
    BY <1>2, <1>6, <2>2, <2>3 DEF WantInv, ProbeInv, SetterInv
<1>8. \A f \in TimingFields : Reckoned(f)' <=> Value(f) \in want.timing[f] \cup wanted.timing[f]
  BY <1>2, <1>4, <1>6 DEF Reckoned
<1>9. ConfigInv'
  <2>1. Idle \notin Programming /\ Idle[1] /= "enable"
    BY DEF Idle, Programming
  <2>2. ({key'} \cup owed') \cap Programming = ({key} \cup owed) \cap Programming
    BY <1>2, <1>3, <2>1
  <2>3. "brp_nomi" \in TimingFields /\ TimingFields \subseteq Fields \ {"cfg_en"}
    BY FieldFacts DEF TimingFields
  <2>4. \A f \in TimingFields : f /= "brp_nomi" => Reckoned(f)'
    BY <1>1, <1>8, <2>3, SettledNow DEF ConfigInv, Reckoned
  <2>5. Settled("cfg_en")' = 0 => Reckoned("brp_nomi")'
    <3>1. SUFFICES ASSUME Value("cfg_en") = 0
          PROVE  Reckoned("brp_nomi")'
      BY <1>6
    <3>2. Settled("cfg_en") = 0 /\ Value("brp_nomi") = Settled("brp_nomi")
      BY <2>3, <3>1, FieldFacts, SettledNow
    <3> QED
      BY <1>1, <1>8, <2>3, <3>2 DEF ConfigInv, Reckoned
  <2> QED
    BY <1>1, <1>2, <1>6, <2>1, <2>2, <2>4, <2>5, SettledNow DEF ConfigInv, busVars
<1>10. \A command \in Programming : Fixed(command)' => Fixed(command)
  BY <1>2, <1>3 DEF Fixed
<1>11. SlotInv'
  <2>1. \A e \in Entries : << "set_fi", e >> \in Programming
    BY MemoryAssumption, PowersAssumption DEF Programming, Entries
  <2>2. key'[1] = "none"
    BY <1>2 DEF Idle
  <2> QED
    BY <1>1, <1>2, <1>4, <1>10, <2>1, <2>2 DEF SlotInv
<1>12. PendingInv'
  <2>1. key'[1] = "none"
    BY <1>2 DEF Idle
  <2> QED
    BY <1>1, <1>2, <1>6, <2>1, SettledNow DEF PendingInv, Pending, muVars
<1>13. VectorInv'
  <2>1. \A e \in Entries : << "set_vec", e >> \in Programming
    BY MemoryAssumption, PowersAssumption DEF Programming, Entries
  <2>2. key'[1] = "none"
    BY <1>2 DEF Idle
  <2>3. \A e, s : Stored(e, s)' = Stored(e, s)
    BY <1>2 DEF Stored, Pending, Written, WideWord, muVars
  <2> QED
    BY <1>1, <1>2, <1>4, <1>10, <2>1, <2>2, <2>3 DEF VectorInv
<1> QED
  BY <1>5, <1>7, <1>9, <1>11, <1>12, <1>13 DEF HostInv
-----------------------------------------------------------------------------
(* An access *)

ConfigOps == Fields \cup {"save", "read", "check", "restore"}
SlotOps == {"value", "mask", "fi"}
MuOps == {"data", "addr", "valid"}

LEMMA Registers ==
    ASSUME NEW a \in Accesses, Configuration(a) \/ Slot(a) \/ MuRegister(a)
    PROVE  /\ a.op \in ConfigOps =>
                /\ id_mem' = id_mem /\ mu' = mu /\ was_written' = 0
                /\ a.op = "save" =>
                    config' = config /\ cfg_save' = config["GLOBAL_CONFIG"] /\ base' = base
                /\ a.op = "read" =>
                    config' = config /\ cfg_save' = cfg_save /\ base' = config[a.at]
                /\ a.op = "check" =>
                    config' = config /\ cfg_save' = cfg_save /\ base' = base
                /\ a.op \in Fields =>
                    /\ config' = [config EXCEPT ![RegisterOf[a.op]] =
                                                    [base EXCEPT ![a.op] = a.v]]
                    /\ cfg_save' = cfg_save
                /\ a.op = "restore" =>
                    config' = [config EXCEPT !["GLOBAL_CONFIG"] = cfg_save]
           /\ a.op \in SlotOps =>
                /\ UNCHANGED << config, mu, base, cfg_save >>
                /\ was_written' = 0
                /\ id_mem' = [id_mem EXCEPT ![a.at][a.op] = a.v]
           /\ a.op \in MuOps =>
                /\ UNCHANGED << config, id_mem, base, cfg_save >>
                /\ mu' = [mu EXCEPT ![a.op] = a.v]
                /\ was_written' = IF a.op = "valid" THEN 1 ELSE 0
<1>1. /\ ConfigOps \cap (SlotOps \cup MuOps) = {} /\ SlotOps \cap MuOps = {}
      /\ Fields \cap {"save", "read", "check", "restore"} = {}
  BY FieldFacts DEF ConfigOps, SlotOps, MuOps
<1>2. CASE Configuration(a)
  <2>1. a.op \in ConfigOps
    BY <1>2 DEF Configuration, ConfigOps
  <2> QED
    BY <1>1, <1>2, <2>1 DEF Configuration
<1>3. CASE Slot(a)
  <2>1. a.op \in SlotOps
    BY <1>3 DEF Slot, SlotOps
  <2> QED
    BY <1>1, <1>3, <2>1 DEF Slot
<1>4. CASE MuRegister(a)
  <2>1. a.op \in MuOps
    BY <1>4 DEF MuRegister, MuOps
  <2> QED
    BY <1>1, <1>4, <2>1 DEF MuRegister
<1> QED
  BY <1>2, <1>3, <1>4

\* Which access comes next, as the invocation prescribes.
LEMMA NextAccess ==
    ASSUME HostInv, ProgramStep
    PROVE  LET a == Head(todo)
               n == Made + 1
           IN  /\ Busy /\ a \in Accesses /\ n \in 1 .. 7 + Length /\ Item(n, a)
               /\ Unit /\ (Configuration(a) \/ Slot(a) \/ MuRegister(a))
<1>1. HostTypeOK /\ TodoInv /\ todo \in Seq(Accesses) /\ todo /= << >>
  BY DEF HostInv, HostTypeOK, ProgramStep, MakeAccess
<1>2. Len(todo) \in Nat \ {0} /\ Head(todo) = todo[1] /\ todo[1] \in Accesses
  BY <1>1
<1>3. Length \in Nat
  BY <1>1, LengthIsNat
<1>4. Made + 1 \in 1 .. 7 + Length
  BY <1>1, <1>2, <1>3 DEF Made, TodoInv
<1>5. Item(Made + 1, todo[1])
  BY <1>1, <1>2 DEF TodoInv
<1> QED
  BY <1>1, <1>2, <1>4, <1>5 DEF ProgramStep, MakeAccess, Busy

\* The registers that access n may concern.
LEMMA Operations ==
    ASSUME HostTypeOK, NEW n \in 1 .. 7 + Length, NEW a, Item(n, a)
    PROVE  /\ n <= 7 => a.op \in ConfigOps
           /\ n > 7 /\ Configures(key) =>
                /\ n - 7 \in 1 .. Len(Setters(key)) /\ a = Setters(key)[n - 7]
                /\ SetterAt(Setters(key), n - 7, Setting(key)) /\ a.op \in ConfigOps
           /\ n > 7 /\ key[1] = "set_fi" =>
                n \in 8 .. 10 /\ key[2] \in Entries /\ a.op \in SlotOps
           /\ n > 7 /\ key[1] = "set_vec" => n - 7 \in 1 .. 4 * SegCnt /\ a.op \in MuOps
           /\ n > 7 => Configures(key) \/ key[1] \in {"set_fi", "set_vec"}
           /\ a.op = "check" => n = 6
<1>1. key \in Keys /\ Length \in Nat /\ SegCnt \in Nat
  BY LengthIsNat, MemoryAssumption DEF HostTypeOK
<1>2. \/ key[1] \in {"none", "status"} \/ Configures(key)
      \/ key[1] \in {"set_fi", "set_vec"}
  BY <1>1 DEF Keys, Idle, Programming, Configures
<1>3. "check" \notin Fields \cup {"read"} \cup SlotOps \cup MuOps
      /\ "cfg_en" \in Fields /\ "brp_nomi" \in Fields
  BY FieldFacts DEF SlotOps, MuOps
<1>4. CASE n <= 7
  <2>1. ProbeItem(n, a) /\ n \in {1, 2, 3, 4, 5, 6, 7}
    BY <1>1, <1>4 DEF Item
  <2> QED
    BY <1>3, <1>4, <2>1 DEF ProbeItem, ConfigOps
<1>5. CASE n > 7
  <2>1. CommandItem(n, a) /\ n \in Int
    BY <1>1, <1>5 DEF Item
  <2>2. CASE Configures(key)
    <3>1. Length = Len(Setters(key)) /\ key[1] \notin {"set_fi", "set_vec"}
      BY <2>2 DEF Length, Configures
    <3>2. n - 7 \in 1 .. Len(Setters(key)) /\ a = Setters(key)[n - 7]
      BY <1>1, <1>5, <2>1, <2>2, <3>1 DEF CommandItem
    <3>3. SetterAt(Setters(key), n - 7, Setting(key))
      BY <1>1, <2>2, <3>2, CommandSets DEF Sets
    <3>4. a.op \in Fields \cup {"read"}
      BY <3>2, <3>3 DEF SetterAt
    <3> QED
      BY <1>3, <1>5, <2>2, <3>1, <3>2, <3>3, <3>4 DEF ConfigOps
  <2>3. CASE key[1] \in {"none", "status"}
    <3>1. Length = 0
      BY <2>3 DEF Length, Configures
    <3> QED
      BY <1>5, <3>1
  <2>4. CASE key[1] = "set_fi"
    <3>1. Length = IF key[2] \in Entries THEN 3 ELSE 0
      BY <2>4 DEF Length, Configures
    <3>2. key[2] \in Entries /\ n \in {8, 9, 10} /\ SlotItem(n, a, key[2])
      BY <1>5, <2>1, <2>4, <3>1 DEF CommandItem
    <3>3. a.op \in SlotOps
      BY <3>2 DEF SlotItem, SlotOps
    <3>4. ~Configures(key)
      BY <2>4 DEF Configures
    <3> QED
      BY <1>3, <1>5, <2>4, <3>2, <3>3, <3>4
  <2>5. CASE key[1] = "set_vec"
    <3>1. Length = 4 * SegCnt /\ ~Configures(key)
      BY <2>5 DEF Length, Configures
    <3>2. n - 7 \in 1 .. 4 * SegCnt /\ n - 7 \in Nat \ {0} /\ VectorItem(n, a, key[2])
      BY <1>1, <1>5, <2>1, <2>5, <3>1 DEF CommandItem
    <3>3. Turn(n - 7) \in {1, 2, 3, 4}
      BY <3>2, Turns
    <3>4. a.op \in MuOps
      BY <3>2, <3>3 DEF VectorItem, MuOps
    <3> QED
      BY <1>3, <1>5, <2>5, <3>1, <3>2, <3>4
  <2> QED
    BY <1>2, <2>2, <2>3, <2>4, <2>5
<1> QED
  BY <1>1, <1>4, <1>5

\* The probe finds what it wrote, so no invocation ends before its last access.
LEMMA ProgramAdvances ==
    ASSUME HostInv, ProgramStep
    PROVE  /\ todo' \in Seq(Accesses)
           /\ Made + 1 < 7 + Length =>
                Busy' /\ UNCHANGED operatorVars /\ Made' = Made + 1 /\ Length' = Length
           /\ Made + 1 = 7 + Length => ~Busy' /\ Carried
           /\ TodoInv'
<1> DEFINE a == Head(todo)
           n == Made + 1
<1>1. HostTypeOK /\ TodoInv /\ ProbeInv /\ todo \in Seq(Accesses) /\ todo /= << >>
      /\ Length \in Nat
  BY LengthIsNat DEF HostInv, HostTypeOK, ProgramStep, MakeAccess
<1>2. n \in 1 .. 7 + Length /\ Item(n, a)
  BY NextAccess
<1>3. Made \in Int /\ Len(todo) \in Int
  BY <1>1 DEF Made
<1>4. a.op = "check" => Sticks
  <2>1. a.op = "check" => n = 6
    <3> HIDE DEF n, a
    <3> QED
      BY <1>1, <1>2, Operations
  <2>2. n = 6 => Made = 5
    BY <1>3
  <2> QED
    BY <1>1, <2>1, <2>2 DEF ProbeInv, Busy, Sticks
<1>5. todo' = Tail(todo)
  BY <1>4 DEF ProgramStep, MakeAccess
<1>6. Len(todo) \in Nat \ {0} /\ Len(todo') = Len(todo) - 1 /\ todo' \in Seq(Accesses)
      /\ \A i \in 1 .. Len(todo') : todo'[i] = todo[i + 1]
  BY <1>1, <1>5
<1>7. todo' = << >> <=> n = 7 + Length
  <2>1. Len(todo') = 0 <=> n = 7 + Length
    BY <1>1, <1>6 DEF Made
  <2> QED
    BY <1>6, <2>1
<1>8. CASE n < 7 + Length
  <2>1. UNCHANGED operatorVars /\ todo' /= << >>
    BY <1>1, <1>7, <1>8 DEF ProgramStep
  <2>2. Length' = Length
    BY <2>1 DEF Length, operatorVars
  <2>3. Made' = n /\ Made \in Int
    BY <1>1, <1>6, <2>2 DEF Made
  <2>4. TodoInv'
    <3>1. Len(todo') <= 7 + Length
      BY <1>1, <1>6 DEF TodoInv
    <3>2. ASSUME NEW i \in 1 .. Len(todo')
          PROVE  Item(Made + i, todo[i])'
      <4>1. /\ todo'[i] = todo[i + 1] /\ i + 1 \in 1 .. Len(todo)
            /\ Made + (i + 1) = Made' + i
        <5>1. i \in Int /\ todo'[i] = todo[i + 1] /\ i + 1 \in 1 .. Len(todo)
          BY <1>6
        <5>2. PICK m : m = Made
          OBVIOUS
        <5>3. m \in Int /\ Made' = m + 1
          BY <1>3, <2>3, <5>2
        <5> QED
          BY <5>1, <5>2, <5>3
      <4>2. Item(Made' + i, todo'[i])
        BY <1>1, <4>1 DEF TodoInv
      <4> QED
        BY <2>1, <4>2 DEF operatorVars, Item, CommandItem, SlotItem, VectorItem
    <3> QED
      BY <2>2, <3>1, <3>2 DEF TodoInv
  <2> QED
    BY <1>6, <1>8, <2>1, <2>2, <2>3, <2>4 DEF Busy
<1>9. CASE n = 7 + Length
  <2>1. Carried /\ todo' = << >>
    BY <1>7, <1>9 DEF ProgramStep
  <2>2. Len(todo') = 0 /\ Length' = 0
    BY <2>1 DEF Carried, Length, Idle, Configures
  <2>3. TodoInv'
    BY <2>2 DEF TodoInv
  <2>4. ~Busy'
    BY <2>1 DEF Busy
  <2>5. ~(n < 7 + Length)
    BY <1>1, <1>9
  <2> QED
    BY <1>6, <1>9, <2>1, <2>3, <2>4, <2>5
<1> QED
  BY <1>1, <1>2, <1>6, <1>8, <1>9, <1>3

\* The probe leaves the configuration as it was.
LEMMA ProbeStep ==
    ASSUME HostInv, ProgramStep, NEW n, n = Made + 1, n <= 7
    PROVE  /\ ConfigTypeOK' /\ ProbeInv' /\ SetterInv'
           /\ \A f \in Fields : Settled(f)' = Settled(f)
<1> DEFINE a == Head(todo)
           r == "GLOBAL_CONFIG"
<1>1. HostTypeOK /\ ConfigTypeOK /\ ProbeInv /\ Length \in Nat
  BY LengthIsNat DEF HostInv, HostTypeOK
<1>2. /\ Busy /\ a \in Accesses /\ n \in 1 .. 7 + Length /\ Item(n, a)
      /\ Configuration(a) \/ Slot(a) \/ MuRegister(a)
  BY NextAccess
<1>3. Made \in Int /\ n \in {1, 2, 3, 4, 5, 6, 7} /\ Made = n - 1
  <2>1. Made \in Int
    BY <1>1 DEF HostTypeOK, Made
  <2> QED
    BY <1>1, <1>2, <2>1
<1>4. /\ n < 7 => Busy' /\ Made' = n
      /\ n = 7 => ~Busy' \/ Made' = 7
  BY <1>1, <1>2, <1>3, ProgramAdvances
<1>5. ProbeItem(n, a) /\ a.op \in ConfigOps
  BY <1>1, <1>2, Operations DEF Item
<1> HIDE DEF a
<1>6. /\ config = [q \in ConfigRegisters |-> config[q]] /\ r \in ConfigRegisters
      /\ \A q \in ConfigRegisters : config[q] \in Contents(q)
      /\ Value("cfg_en") \in Bit
  BY <1>1, FieldFacts DEF ConfigTypeOK
<1>7. /\ \A f \in FieldsOf(r) : f \in Fields /\ RegisterOf[f] = r
      /\ "cfg_en" \in FieldsOf(r) /\ "brp_nomi" \in FieldsOf(r)
  BY FieldFacts DEF FieldsOf
<1>8. SetterInv'
  BY <1>3, <1>4 DEF SetterInv
<1>9. CASE n = 1
  <2>1. config' = config /\ cfg_save' = config[r]
    BY <1>2, <1>5, <1>9, Registers DEF ProbeItem
  <2>2. Made = 0 /\ Made' = 1 /\ Busy'
    BY <1>3, <1>4, <1>9
  <2>3. \A f : Value(f)' = Value(f)
    BY <2>1 DEF Value
  <2>4. ConfigTypeOK'
    BY <1>1, <2>1, <2>3 DEF ConfigTypeOK
  <2>5. \A f \in FieldsOf(r) : cfg_save'[f] = Value(f)'
    BY <1>7, <2>1 DEF Value
  <2>6. \A f \in Fields : Settled(f)' = Settled(f)
    <3>1. \A f \in Fields : Settled(f) = Value(f)
      BY <2>2 DEF Settled
    <3>2. \A f \in Fields : Settled(f)' = IF RegisterOf[f] = r THEN cfg_save'[f] ELSE Value(f)'
      BY <2>2 DEF Settled
    <3> QED
      BY <2>3, <2>5, <3>1, <3>2 DEF FieldsOf
  <2>7. ProbeInv'
    <3>1. cfg_save' \in Contents(r) /\ cfg_save'["cfg_en"] \in Bit
      BY <1>6, <1>7, <2>1, <2>3, <2>5
    <3> QED
      BY <2>1, <2>2, <2>5, <3>1 DEF ProbeInv
  <2> QED
    BY <1>8, <2>4, <2>6, <2>7
<1>10. CASE n \in 2 .. 6
  <2>1. Made = n - 1 /\ Made' = n /\ Busy' /\ Made \in 1 .. 6 /\ Made' \in 1 .. 6
    BY <1>3, <1>4, <1>10
  <2>2. cfg_save' = cfg_save
    <3>1. a.op \in {"read", "cfg_en", "brp_nomi", "check"}
      BY <1>3, <1>5, <1>10 DEF ProbeItem
    <3> QED
      BY <1>2, <1>5, <3>1, FieldFacts, Registers
  <2>3. /\ cfg_save \in Contents(r) /\ cfg_save["cfg_en"] \in Bit
        /\ \A f \in FieldsOf(r) \ {"cfg_en", "brp_nomi"} : Value(f) = cfg_save[f]
    BY <1>1, <1>2, <2>1 DEF ProbeInv
  <2>4. ASSUME ConfigTypeOK',
               \A f \in Fields \ {"cfg_en", "brp_nomi"} : Value(f)' = Value(f),
               n = 2 => config'[r] = cfg_save,
               n \in 3 .. 6 => Value("cfg_en")' = 1,
               n \in {5, 6} => Value("brp_nomi")' = ProbeBrp,
               n \in {2, 4} => base' = config'[r]
        PROVE  /\ ConfigTypeOK' /\ ProbeInv' /\ SetterInv'
               /\ \A f \in Fields : Settled(f)' = Settled(f)
    <3>1. ASSUME NEW f \in Fields
          PROVE  Settled(f)' = Settled(f)
      <4>1. Settled(f)' = IF RegisterOf[f] = r THEN cfg_save[f] ELSE Value(f)'
        BY <2>1, <2>2 DEF Settled
      <4>2. Settled(f) = IF RegisterOf[f] = r THEN cfg_save[f] ELSE Value(f)
        BY <1>2, <2>1 DEF Settled
      <4>3. RegisterOf[f] /= r => Value(f)' = Value(f)
        BY <1>7, <2>4
      <4> QED
        BY <4>1, <4>2, <4>3
    <3>2. \A f \in FieldsOf(r) \ {"cfg_en", "brp_nomi"} : Value(f)' = cfg_save'[f]
      BY <1>7, <2>2, <2>3, <2>4
    <3>3. ProbeInv'
      BY <1>10, <2>1, <2>2, <2>3, <2>4, <3>2 DEF ProbeInv
    <3> QED
      BY <1>8, <2>4, <3>1, <3>3
  <2>5. CASE n \in {2, 4}
    <3>1. config' = config /\ base' = config[r]
      BY <1>2, <1>5, <2>5, Registers DEF ProbeItem
    <3>2. \A f : Value(f)' = Value(f)
      BY <3>1 DEF Value
    <3>3. ConfigTypeOK'
      BY <1>1, <3>1, <3>2 DEF ConfigTypeOK
    <3>4. /\ n = 2 => config[r] = cfg_save
          /\ n = 4 => Value("cfg_en") = 1
      BY <1>1, <1>2, <2>1 DEF ProbeInv
    <3> QED
      BY <2>4, <2>5, <3>1, <3>2, <3>3, <3>4
  <2>6. CASE n = 3
    <3>1. /\ a.op = "cfg_en" /\ a.v = 1
          /\ config' = [config EXCEPT ![RegisterOf["cfg_en"]] = [base EXCEPT !["cfg_en"] = 1]]
      BY <1>2, <1>5, <2>6, FieldFacts, Registers DEF ProbeItem
    <3>2. base = config[RegisterOf["cfg_en"]]
      BY <1>1, <1>2, <2>1, <2>6, FieldFacts DEF ProbeInv
    <3>3. ConfigTypeOK' /\ \A g \in Fields : Value(g)' = IF g = "cfg_en" THEN 1 ELSE Value(g)
      BY <1>1, <3>1, <3>2, FieldFacts, FieldWritten DEF Bit
    <3> QED
      BY <1>7, <2>4, <2>6, <3>3
  <2>7. CASE n = 5
    <3>1. /\ a.op = "brp_nomi" /\ a.v = ProbeBrp
          /\ config' = [config EXCEPT ![RegisterOf["brp_nomi"]] =
                                         [base EXCEPT !["brp_nomi"] = ProbeBrp]]
      BY <1>2, <1>5, <2>7, FieldFacts, Registers DEF ProbeItem
    <3>2. base = config[RegisterOf["brp_nomi"]] /\ Value("cfg_en") = 1
      BY <1>1, <1>2, <2>1, <2>7, FieldFacts DEF ProbeInv
    <3>3. ConfigTypeOK'
          /\ \A g \in Fields : Value(g)' = IF g = "brp_nomi" THEN ProbeBrp ELSE Value(g)
      <4>1. "brp_nomi" \in Fields /\ ProbeBrp \in Nat
        BY FieldFacts, OperatorAssumption
      <4> QED
        BY <1>1, <3>1, <3>2, <4>1, FieldWritten
    <3> QED
      BY <1>7, <2>4, <2>7, <3>2, <3>3
  <2>8. CASE n = 6
    <3>1. config' = config
      BY <1>2, <1>5, <2>8, Registers DEF ProbeItem
    <3>2. \A f : Value(f)' = Value(f)
      BY <3>1 DEF Value
    <3>3. ConfigTypeOK'
      BY <1>1, <3>1, <3>2 DEF ConfigTypeOK
    <3>4. Value("cfg_en") = 1 /\ Value("brp_nomi") = ProbeBrp
      BY <1>1, <1>2, <2>1, <2>8 DEF ProbeInv
    <3> QED
      BY <2>4, <2>8, <3>2, <3>3, <3>4
  <2> QED
    BY <1>10, <2>5, <2>6, <2>7, <2>8
<1>11. CASE n = 7
  <2>1. config' = [config EXCEPT ![r] = cfg_save]
    BY <1>2, <1>5, <1>11, Registers DEF ProbeItem
  <2>2. Made = 6 /\ (~Busy' \/ Made' = 7)
    BY <1>3, <1>4, <1>11
  <2>3. cfg_save \in Contents(r) /\ cfg_save["cfg_en"] \in Bit
    BY <1>1, <1>2, <2>2 DEF ProbeInv
  <2>4. /\ config' = [q \in ConfigRegisters |-> config'[q]]
        /\ \A q \in ConfigRegisters : config'[q] = IF q = r THEN cfg_save ELSE config[q]
    BY <1>6, <2>1
  <2>5. \A f \in Fields : Value(f)' = IF RegisterOf[f] = r THEN cfg_save[f] ELSE Value(f)
    BY <2>4, FieldFacts DEF Value
  <2>6. ConfigTypeOK'
    <3>1. Value("cfg_en")' \in Bit
      BY <1>7, <2>3, <2>5
    <3> QED
      BY <1>6, <2>3, <2>4, <3>1 DEF ConfigTypeOK
  <2>7. ASSUME NEW f \in Fields
        PROVE  Settled(f)' = Settled(f)
    <3>1. Settled(f) = IF RegisterOf[f] = r THEN cfg_save[f] ELSE Value(f)
      BY <1>2, <2>2 DEF Settled
    <3>2. Settled(f)' = Value(f)'
      BY <2>2 DEF Settled
    <3> QED
      BY <2>5, <3>1, <3>2
  <2>8. ProbeInv'
    BY <2>2 DEF ProbeInv
  <2> QED
    BY <1>8, <2>6, <2>7, <2>8
<1> QED
  BY <1>3, <1>9, <1>10, <1>11

\* A field setter changes its field only, from its register as it has read it.
LEMMA SetterStep ==
    ASSUME HostInv, ProgramStep, Configures(key), NEW n, n = Made + 1, n > 7
    PROVE  /\ ConfigTypeOK' /\ ProbeInv' /\ SetterInv'
           /\ \A f \in Fields :
                Settled(f)' = IF Setters(key)[n - 7].op = f THEN Setting(key)[f] ELSE Settled(f)
           /\ \A f \in Fields : Settled(f) = Value(f) /\ Settled(f)' = Value(f)'
           /\ \A i \in 1 .. n - 7, f \in Fields :
                Setters(key)[i].op = f => Settled(f)' = Setters(key)[i].v
<1>0. PICK a, u, args, m :
        a = Head(todo) /\ u = Setters(key) /\ args = Setting(key) /\ m = n - 7
  OBVIOUS
<1>1. HostTypeOK /\ ConfigTypeOK /\ SetterInv /\ Length \in Nat /\ key \in Keys
  BY LengthIsNat DEF HostInv, HostTypeOK
<1>2. /\ Busy /\ a \in Accesses /\ n \in 1 .. 7 + Length /\ Item(n, a)
      /\ Configuration(a) \/ Slot(a) \/ MuRegister(a)
  BY <1>0, NextAccess
<1>3. Made \in Int /\ Made = n - 1 /\ n \in Int
  <2>1. Made \in Int
    BY <1>1 DEF HostTypeOK, Made
  <2> QED
    BY <1>1, <1>2, <2>1
<1>4. Busy' => Made' = n /\ key' = key
  BY <1>1, <1>2, <1>3, ProgramAdvances DEF operatorVars
<1>5. m \in 1 .. Len(u) /\ a = u[m] /\ SetterAt(u, m, args) /\ a.op \in ConfigOps
  BY <1>0, <1>1, <1>2, Operations
<1>6. /\ \A i \in 1 .. Len(u) : SetterAt(u, i, args)
      /\ DOMAIN args \subseteq Fields /\ \A f \in DOMAIN args : args[f] \in Nat
      /\ "cfg_en" \in DOMAIN args => args["cfg_en"] \in Bit
      /\ Len(u) \in Nat
  <2>1. Sets(u, args, DOMAIN args) /\ DOMAIN args \subseteq Fields
        /\ \A f \in DOMAIN args : args[f] \in Nat
    BY <1>0, <1>1, CommandSets
  <2>2. "cfg_en" \in DOMAIN args => args["cfg_en"] \in Bit
    <3>1. key[1] \in {"conf_can", "conf_fi"} \/ key[1] \in {"enable", "disable"}
      BY DEF Configures
    <3> QED
      BY <1>0, <1>1, <3>1, CommandSets DEF Bit
  <2> QED
    BY <2>1, <2>2 DEF Sets
<1>7. \A f : Settled(f) = Value(f) /\ Settled(f)' = Value(f)'
  <2>1. ~(Made \in 1 .. 6) /\ (Busy' => ~(Made' \in 1 .. 6))
    BY <1>3, <1>4
  <2> QED
    BY <2>1 DEF Settled
<1>8. ProbeInv'
  <2>1. Busy' => Made' > 7
    BY <1>3, <1>4
  <2>2. Busy' => Made' \in Int
    BY <1>3, <1>4
  <2> QED
    BY <2>1, <2>2 DEF ProbeInv
<1>9. "read" \notin Fields
  BY FieldFacts
<1>10. m > 1 =>
        /\ u[m - 1].op = "read" => base = config[u[m - 1].at]
        /\ \A i \in 1 .. m - 1 : u[i].op \in Fields => Value(u[i].op) = u[i].v
  <2>1. SUFFICES ASSUME m > 1
        PROVE  /\ u[m - 1].op = "read" => base = config[u[m - 1].at]
               /\ \A i \in 1 .. m - 1 : u[i].op \in Fields => Value(u[i].op) = u[i].v
    OBVIOUS
  <2>2. Made >= 8 /\ Made - 7 = m - 1
    BY <1>0, <1>3, <2>1
  <2> QED
    BY <1>0, <1>1, <1>2, <2>2 DEF SetterInv
<1>11. ASSUME ConfigTypeOK', a.op = "read" => base' = config'[a.at],
              \A f \in Fields : Value(f)' = IF a.op = f THEN args[f] ELSE Value(f)
       PROVE  /\ SetterInv'
              /\ \A i \in 1 .. m, f \in Fields : u[i].op = f => Value(f)' = u[i].v
  <2>1. ASSUME NEW i \in 1 .. m, NEW f \in Fields, u[i].op = f
        PROVE  Value(f)' = u[i].v
    <3>1. SetterAt(u, i, args)
      <4>1. i \in 1 .. Len(u)
        BY <1>0, <1>3, <1>5, <1>6
      <4> QED
        BY <1>6, <4>1
    <3>2. u[i].v = args[f]
      BY <1>9, <2>1, <3>1 DEF SetterAt
    <3>3. CASE f = a.op
      BY <1>11, <2>1, <3>2, <3>3
    <3>4. CASE f /= a.op
      <4>1. i \in 1 .. m - 1 /\ m > 1
        BY <1>0, <1>3, <1>5, <2>1, <3>4
      <4> QED
        BY <1>10, <1>11, <2>1, <3>4, <4>1
    <3> QED
      BY <3>3, <3>4
  <2>2. SetterInv'
    <3>1. SUFFICES ASSUME Busy'
          PROVE  SetterInv'
      BY DEF SetterInv
    <3>2. Made' - 7 = m /\ Setters(key)' = u
      BY <1>0, <1>4, <3>1
    <3>3. u[m].op = "read" => base' = config'[u[m].at]
      BY <1>5, <1>11
    <3> QED
      BY <2>1, <3>2, <3>3 DEF SetterInv
  <2> QED
    BY <2>1, <2>2
<1>12. CASE a.op = "read"
  <2>1. config' = config /\ base' = config[a.at]
    BY <1>2, <1>5, <1>12, Registers
  <2>2. \A f : Value(f)' = Value(f)
    BY <2>1 DEF Value
  <2>3. ConfigTypeOK'
    BY <1>1, <2>1, <2>2 DEF ConfigTypeOK
  <2>4. \A f \in Fields : Value(f)' = IF a.op = f THEN args[f] ELSE Value(f)
    BY <1>9, <1>12, <2>2
  <2>5. SetterInv' /\ \A i \in 1 .. m, f \in Fields : u[i].op = f => Value(f)' = u[i].v
    BY <1>11, <2>1, <2>3, <2>4
  <2> QED
    BY <1>0, <1>5, <1>7, <1>8, <2>3, <2>4, <2>5
<1>13. CASE a.op /= "read"
  <2>1. /\ a.op \in Fields /\ a.op \in DOMAIN args /\ a.v = args[a.op]
        /\ m > 1 /\ u[m - 1].op = "read" /\ u[m - 1].at = RegisterOf[a.op]
    BY <1>5, <1>13 DEF SetterAt
  <2>2. base = config[RegisterOf[a.op]]
    BY <1>10, <2>1
  <2>3. config' = [config EXCEPT ![RegisterOf[a.op]] = [base EXCEPT ![a.op] = a.v]]
    BY <1>2, <1>5, <2>1, Registers
  <2>4. a.v \in Nat /\ (a.op = "cfg_en" => a.v \in Bit)
    BY <1>6, <2>1
  <2>5. ConfigTypeOK' /\ \A g \in Fields : Value(g)' = IF g = a.op THEN a.v ELSE Value(g)
    BY <1>1, <2>1, <2>2, <2>3, <2>4, FieldWritten
  <2>6. \A f \in Fields : Value(f)' = IF a.op = f THEN args[f] ELSE Value(f)
    BY <2>1, <2>5
  <2>7. SetterInv' /\ \A i \in 1 .. m, f \in Fields : u[i].op = f => Value(f)' = u[i].v
    BY <1>11, <1>13, <2>5, <2>6
  <2> QED
    BY <1>0, <1>5, <1>7, <1>8, <2>5, <2>6, <2>7
<1> QED
  BY <1>12, <1>13

\* The probe leaves the configuration as it was; a command that configures then
\* sets the fields that it was given, and with its last access has set them all.
LEMMA ConfigStep ==
    ASSUME HostInv, ProgramStep
    PROVE  /\ ConfigTypeOK' /\ ProbeInv' /\ SetterInv'
           /\ Settled("cfg_en")' \in Bit /\ Value("cfg_en")' \in Bit
           /\ \A f \in Fields :
                \/ Settled(f)' = Settled(f)
                \/ /\ Configures(key) /\ f \in DOMAIN Setting(key)
                   /\ Settled(f)' = Setting(key)[f]
           /\ Made + 1 < 7 + Length /\ key[1] \in {"enable", "disable"} =>
                Settled("cfg_en")' = Settled("cfg_en")
           /\ Made + 1 = 7 + Length /\ Configures(key) =>
                \A f \in DOMAIN Setting(key) : Settled(f)' = Setting(key)[f]
           /\ Settled("cfg_en")' = 1 => Value("cfg_en")' = 1
<1>1. HostTypeOK /\ key \in Keys /\ Length \in Nat /\ Made \in Int
  BY LengthIsNat DEF HostInv, HostTypeOK, Made
<1>2. PICK n : n = Made + 1
  OBVIOUS
<1>3. /\ Busy /\ Head(todo) \in Accesses /\ n \in 1 .. 7 + Length /\ Item(n, Head(todo))
      /\ Configuration(Head(todo)) \/ Slot(Head(todo)) \/ MuRegister(Head(todo))
  BY <1>2, NextAccess
<1>4. n < 7 + Length => Busy' /\ Made' = n
  BY <1>2, ProgramAdvances
<1>5. ASSUME ConfigTypeOK', ProbeInv', Settled("cfg_en")' \in Bit,
             n >= 7 => Settled("cfg_en")' = Value("cfg_en")'
      PROVE  /\ Settled("cfg_en")' \in Bit /\ Value("cfg_en")' \in Bit
             /\ Settled("cfg_en")' = 1 => Value("cfg_en")' = 1
  <2>1. Value("cfg_en")' \in Bit
    BY <1>5 DEF ConfigTypeOK
  <2>2. CASE n < 7 + Length /\ n \in {1, 2}
    <3>1. cfg_save' = config'["GLOBAL_CONFIG"]
      BY <1>4, <1>5, <2>2 DEF ProbeInv
    <3> QED
      BY <1>5, <2>1, <3>1, FieldFacts DEF Settled, Value
  <2>3. CASE n < 7 + Length /\ n \in 3 .. 6
    <3>1. Value("cfg_en")' = 1
      BY <1>4, <1>5, <2>3 DEF ProbeInv
    <3> QED
      BY <1>5, <2>1, <3>1
  <2>4. CASE n >= 7
    BY <1>5, <2>1, <2>4
  <2> QED
    BY <1>1, <1>3, <2>2, <2>3, <2>4
<1>6. "cfg_en" \in Fields /\ Settled("cfg_en") \in Bit
  BY FieldFacts, SettledNow
<1>7. n = 7 + Length => ~Busy'
  BY <1>2, ProgramAdvances
<1>8. CASE n <= 7
  <2>1. /\ ConfigTypeOK' /\ ProbeInv' /\ SetterInv'
        /\ \A f \in Fields : Settled(f)' = Settled(f)
    BY <1>2, <1>8, ProbeStep
  <2>2. n >= 7 => Settled("cfg_en")' = Value("cfg_en")'
    <3>1. SUFFICES ASSUME n = 7
          PROVE  Settled("cfg_en")' = Value("cfg_en")'
      BY <1>3, <1>8
    <3>2. ~Busy' \/ Made' = 7
      BY <1>1, <1>3, <1>4, <1>7, <3>1
    <3> QED
      BY <3>2 DEF Settled
  <2>3. /\ Settled("cfg_en")' \in Bit /\ Value("cfg_en")' \in Bit
        /\ Settled("cfg_en")' = 1 => Value("cfg_en")' = 1
    <3>1. Settled("cfg_en")' \in Bit
      BY <1>6, <2>1
    <3> QED
      BY <1>5, <2>1, <2>2, <3>1
  <2>4. n = 7 + Length /\ Configures(key) => DOMAIN Setting(key) = {}
    <3>1. SUFFICES ASSUME n = 7 + Length, Configures(key)
          PROVE  DOMAIN Setting(key) = {}
      OBVIOUS
    <3>2. Length = 0 /\ Length = Len(Setters(key))
      BY <1>1, <1>8, <3>1 DEF Length, Configures
    <3>3. Sets(Setters(key), Setting(key), DOMAIN Setting(key))
      BY <1>1, <3>1, CommandSets
    <3> QED
      BY <3>2, <3>3 DEF Sets
  <2> QED
    BY <1>2, <1>6, <2>1, <2>3, <2>4
<1>9. CASE n > 7 /\ Configures(key)
  <2>1. PICK u, args : u = Setters(key) /\ args = Setting(key)
    OBVIOUS
  <2>2. /\ ConfigTypeOK' /\ ProbeInv' /\ SetterInv'
        /\ \A f \in Fields :
             Settled(f)' = IF u[n - 7].op = f THEN args[f] ELSE Settled(f)
        /\ \A f \in Fields : Settled(f)' = Value(f)'
        /\ \A i \in 1 .. n - 7, f \in Fields : u[i].op = f => Settled(f)' = u[i].v
    BY <1>2, <1>9, <2>1, SetterStep
  <2>3. n - 7 \in 1 .. Len(u) /\ SetterAt(u, n - 7, args)
    BY <1>1, <1>3, <1>9, <2>1, Operations
  <2>4. /\ Sets(u, args, DOMAIN args) /\ DOMAIN args \subseteq Fields
        /\ key[1] \in {"enable", "disable"} => Len(u) = 2 /\ u[1].op = "read"
    BY <1>1, <1>9, <2>1, CommandSets
  <2>5. Length = Len(u)
    BY <1>9, <2>1 DEF Length, Configures
  <2>6. ASSUME NEW f \in Fields, u[n - 7].op = f
        PROVE  f \in DOMAIN args
    BY <2>3, <2>6, FieldFacts DEF SetterAt
  <2>7. Settled("cfg_en")' \in Bit /\ Value("cfg_en")' \in Bit
        /\ Settled("cfg_en")' = Value("cfg_en")'
    BY <1>6, <2>2 DEF ConfigTypeOK
  <2>8. n < 7 + Length /\ key[1] \in {"enable", "disable"} =>
            Settled("cfg_en")' = Settled("cfg_en")
    <3>1. SUFFICES ASSUME n < 7 + Length, key[1] \in {"enable", "disable"}
          PROVE  Settled("cfg_en")' = Settled("cfg_en")
      OBVIOUS
    <3>2. n - 7 = 1 /\ u[1].op = "read"
      <4>1. Len(u) = 2 /\ u[1].op = "read"
        BY <2>4, <3>1
      <4>2. Length = 2 /\ n \in Int
        BY <1>1, <1>3, <2>5, <4>1
      <4> QED
        BY <1>9, <3>1, <4>1, <4>2
    <3> QED
      BY <1>6, <2>2, <3>2
  <2>9. ASSUME n = 7 + Length, NEW f \in DOMAIN args
        PROVE  Settled(f)' = args[f]
    <3>1. PICK i \in 1 .. Len(u) : u[i].op = f
      BY <2>4 DEF Sets
    <3>2. SetterAt(u, i, args) /\ f \in Fields
      BY <2>4 DEF Sets
    <3>3. u[i].v = args[f]
      BY <3>1, <3>2, FieldFacts DEF SetterAt
    <3>4. i \in 1 .. n - 7
      <4>1. n - 7 = Len(u)
        BY <1>1, <1>3, <2>5, <2>9
      <4> QED
        BY <4>1
    <3> QED
      BY <2>2, <3>1, <3>2, <3>3, <3>4
  <2> QED
    BY <1>2, <1>9, <2>1, <2>2, <2>6, <2>7, <2>8, <2>9
<1>10. CASE n > 7 /\ ~Configures(key)
  <2>1. Head(todo).op \in SlotOps \cup MuOps
    BY <1>1, <1>3, <1>10, Operations
  <2>2. config' = config
    BY <1>3, <2>1, Registers
  <2>3. \A f : Value(f)' = Value(f)
    BY <2>2 DEF Value
  <2>4. ConfigTypeOK'
    BY <1>1, <2>2, <2>3 DEF HostTypeOK, ConfigTypeOK
  <2>5. Made = n - 1 /\ ~(Made \in 1 .. 6) /\ (Busy' => Made' = n /\ key' = key)
    BY <1>1, <1>2, <1>3, <1>10, ProgramAdvances DEF operatorVars
  <2>6. Busy' => Made' > 7 /\ Made' \in Int
    BY <1>10, <1>3, <2>5
  <2>7. \A f : Settled(f) = Value(f) /\ Settled(f)' = Value(f)'
    <3>1. Busy' => ~(Made' \in 1 .. 6)
      BY <2>6
    <3> QED
      BY <2>5, <3>1 DEF Settled
  <2>8. ProbeInv' /\ SetterInv'
    <3>1. ProbeInv'
      BY <2>6 DEF ProbeInv
    <3>2. SetterInv'
      BY <1>10, <2>5 DEF SetterInv
    <3> QED
      BY <3>1, <3>2
  <2>9. ~(key[1] \in {"enable", "disable"})
    BY <1>10 DEF Configures
  <2> QED
    BY <1>2, <1>6, <1>10, <2>3, <2>4, <2>7, <2>8, <2>9 DEF ConfigTypeOK
<1> QED
  BY <1>1, <1>3, <1>8, <1>9, <1>10

\* With its last access a command is no longer owed; until then nothing changes.
LEMMA OperatorKeeps ==
    ASSUME HostInv, ProgramStep
    PROVE  /\ \/ /\ Made + 1 < 7 + Length /\ Busy' /\ Made' = Made + 1
                 /\ UNCHANGED operatorVars
              \/ Made + 1 = 7 + Length /\ ~Busy' /\ Carried
           /\ key' \in Keys /\ owed' \in SUBSET Programming
           /\ mode' \in {"on", "off", "unsure"} /\ want' \in Wants /\ wanted' \in Wants
           /\ WantInv'
<1>1. HostTypeOK /\ WantInv
  BY DEF HostInv
<1>2. Made + 1 \in 1 .. 7 + Length /\ Length \in Nat
  BY <1>1, LengthIsNat, NextAccess
<1>3. CASE Made + 1 < 7 + Length
  <2>1. Busy' /\ Made' = Made + 1 /\ UNCHANGED operatorVars
    BY <1>3, ProgramAdvances
  <2> QED
    BY <1>1, <1>3, <2>1 DEF HostTypeOK, WantInv, operatorVars
<1>4. CASE Made + 1 = 7 + Length
  <2>1. ~Busy' /\ Carried
    BY <1>4, ProgramAdvances
  <2>2. Idle \in Keys /\ Timed(Idle) = {}
    BY DEF Keys, Timed, Idle
  <2>3. WantInv'
    BY <2>1, <2>2 DEF Carried, WantInv
  <2> QED
    BY <1>1, <1>4, <2>1, <2>2, <2>3 DEF HostTypeOK, Carried
<1> QED
  BY <1>2, <1>3, <1>4

LEMMA ConfigKept ==
    ASSUME HostInv, ProgramStep
    PROVE  ConfigInv' /\ awake' \in Bit
<1>1. HostTypeOK /\ ConfigInv /\ WantInv /\ key \in Keys /\ Length \in Nat /\ Made \in Int
  BY LengthIsNat DEF HostInv, HostTypeOK, Made
<1>2. /\ Settled("cfg_en") \in Bit /\ Settled("cfg_en")' \in Bit /\ Value("cfg_en")' \in Bit
      /\ "cfg_en" \in Fields /\ "brp_nomi" \in TimingFields
      /\ TimingFields \subseteq Fields \ {"cfg_en"}
  BY SettledNow, ConfigStep, FieldFacts DEF TimingFields
<1>3. awake' \in Bit /\ (awake' = 1 => Value("cfg_en")' = 0)
  BY <1>1, <1>2 DEF HostTypeOK, ProgramStep, busVars, Bit
<1>4. \/ Made + 1 < 7 + Length /\ UNCHANGED operatorVars
      \/ Made + 1 = 7 + Length /\ Carried
  BY OperatorKeeps
\* What the operator reckons with holds again, with the same or a new value.
<1>5. /\ ~Configures(key) => \A f \in Fields : Settled(f)' = Settled(f)
      /\ key[1] \in {"enable", "disable"} =>
            /\ \A f \in TimingFields : Settled(f)' = Settled(f)
            /\ Made + 1 < 7 + Length => Settled("cfg_en")' = Settled("cfg_en")
            /\ Made + 1 = 7 + Length =>
                  Settled("cfg_en")' = IF key[1] = "enable" THEN 0 ELSE 1
      /\ key[1] \in {"conf_can", "conf_fi"} =>
            /\ Settled("cfg_en")' = Settled("cfg_en")
            /\ \A f \in Fields :
                  Settled(f)' = Settled(f) \/ (f \in Timed(key) /\ Settled(f)' = key[2][f])
            /\ Made + 1 = 7 + Length => \A f \in Timed(key) : Settled(f)' = key[2][f]
  <2>1. ~Configures(key) => \A f \in Fields : Settled(f)' = Settled(f)
    BY ConfigStep
  <2>2. ASSUME key[1] \in {"enable", "disable"}
        PROVE  /\ \A f \in TimingFields : Settled(f)' = Settled(f)
               /\ Made + 1 < 7 + Length => Settled("cfg_en")' = Settled("cfg_en")
               /\ Made + 1 = 7 + Length =>
                    Settled("cfg_en")' = IF key[1] = "enable" THEN 0 ELSE 1
    <3>1. Configures(key)
      BY <2>2 DEF Configures
    <3>2. DOMAIN Setting(key) = {"cfg_en"}
          /\ Setting(key)["cfg_en"] = IF key[1] = "enable" THEN 0 ELSE 1
      BY <1>1, <2>2, <3>1, CommandSets
    <3>3. \A f \in TimingFields : Settled(f)' = Settled(f)
      BY <1>2, <3>2, ConfigStep
    <3> QED
      BY <2>2, <3>1, <3>2, <3>3, ConfigStep
  <2>3. ASSUME key[1] \in {"conf_can", "conf_fi"}
        PROVE  /\ Settled("cfg_en")' = Settled("cfg_en")
               /\ \A f \in Fields :
                    Settled(f)' = Settled(f) \/ (f \in Timed(key) /\ Settled(f)' = key[2][f])
               /\ Made + 1 = 7 + Length => \A f \in Timed(key) : Settled(f)' = key[2][f]
    <3>1. Configures(key)
      BY <2>3 DEF Configures
    <3>2. Setting(key) = key[2] /\ "cfg_en" \notin DOMAIN Setting(key)
      BY <1>1, <2>3, <3>1, CommandSets
    <3>3. Timed(key) = DOMAIN Setting(key)
      BY <2>3, <3>2 DEF Timed
    <3> QED
      BY <1>2, <3>1, <3>2, <3>3, ConfigStep
  <2> QED
    BY <2>1, <2>2, <2>3
<1>6. key[1] \notin {"conf_can", "conf_fi"} => Timed(key) = {}
  BY DEF Timed
<1>7. Configures(key) <=> key[1] \in {"enable", "disable"} \/ key[1] \in {"conf_can", "conf_fi"}
  BY DEF Configures
<1>8. /\ Idle \notin Programming /\ Idle[1] /= "enable"
      /\ key \in Programming => ~Configures(key)
  BY <1>1 DEF Idle, Programming, Configures
<1>9. \A f \in TimingFields :
        wanted.timing[f] = IF f \in Timed(key) THEN {key[2][f]} ELSE want.timing[f]
  BY <1>1 DEF WantInv
<1>10. ASSUME NEW f \in TimingFields, Reckoned(f)
       PROVE  Reckoned(f)'
  <2>1. f \in Fields
    BY <1>2
  <2>2. CASE Made + 1 < 7 + Length /\ UNCHANGED operatorVars
    <3>1. Settled(f)' \in want.timing[f] \cup wanted.timing[f]
      <4>1. CASE Settled(f)' = Settled(f)
        BY <1>10, <4>1 DEF Reckoned
      <4>2. CASE f \in Timed(key) /\ Settled(f)' = key[2][f]
        BY <1>9, <4>2
      <4> QED
        BY <1>5, <1>7, <2>1, <4>1, <4>2
    <3> QED
      BY <2>2, <3>1 DEF Reckoned, operatorVars
  <2>3. CASE Made + 1 = 7 + Length /\ Carried
    <3>1. Settled(f)' \in wanted.timing[f]
      <4>1. CASE f \in Timed(key)
        BY <1>5, <1>6, <1>9, <2>3, <4>1
      <4>2. CASE f \notin Timed(key)
        BY <1>5, <1>7, <1>9, <1>10, <2>1, <4>2 DEF Reckoned
      <4> QED
        BY <4>1, <4>2
    <3> QED
      BY <2>3, <3>1 DEF Reckoned, Carried
  <2> QED
    BY <1>4, <2>2, <2>3
<1>11. "brp_nomi" \notin unset' \/ Settled("cfg_en")' = 0 => Reckoned("brp_nomi")'
  <2>1. SUFFICES ASSUME "brp_nomi" \notin unset' \/ Settled("cfg_en")' = 0,
                        ~("brp_nomi" \notin unset \/ Settled("cfg_en") = 0)
                 PROVE  Reckoned("brp_nomi")'
    BY <1>1, <1>2, <1>10 DEF ConfigInv
\* Only now, if it has been set again.
  <2>2. key[1] /= "enable"
    BY <1>1, <2>1 DEF ConfigInv
  <2>3. Settled("cfg_en")' /= 0
    BY <1>2, <1>4, <1>5, <1>7, <2>1, <2>2 DEF Bit
  <2>4. Carried /\ Made + 1 = 7 + Length
    BY <1>4, <2>1, <2>3 DEF operatorVars
  <2>5. "brp_nomi" \in Timed(key)
    BY <2>1, <2>3, <2>4 DEF Carried
  <2>6. Settled("brp_nomi")' \in wanted.timing["brp_nomi"]
    BY <1>2, <1>5, <1>6, <1>9, <2>4, <2>5
  <2> QED
    BY <2>4, <2>6 DEF Reckoned, Carried
<1>12. /\ mode' = "off" => Settled("cfg_en")' = 1
       /\ key'[1] = "enable" => mode' = "off" /\ owed' = {} /\ unset' = {}
       /\ ({key'} \cup owed') \cap Programming /= {} => Settled("cfg_en")' = 1
  <2>1. CASE Made + 1 < 7 + Length /\ UNCHANGED operatorVars
    <3>1. Settled("cfg_en")' = Settled("cfg_en")
      BY <1>2, <1>5, <1>7, <2>1
    <3> QED
      BY <1>1, <2>1, <3>1 DEF ConfigInv, operatorVars
  <2>2. CASE Made + 1 = 7 + Length /\ Carried
    <3>1. /\ key' = Idle /\ owed' = owed \ {key}
          /\ mode' = IF key[1] = "enable" THEN "on"
                     ELSE IF key[1] = "disable" THEN "off" ELSE mode
      BY <2>2 DEF Carried
    <3>2. CASE key[1] = "enable"
      BY <1>1, <1>8, <3>1, <3>2 DEF ConfigInv
    <3>3. CASE key[1] = "disable"
      BY <1>5, <1>8, <2>2, <3>1, <3>3
    <3>4. CASE key[1] \notin {"enable", "disable"}
      <4>1. Settled("cfg_en")' = Settled("cfg_en")
        BY <1>2, <1>5, <1>7, <3>4
      <4> QED
        BY <1>1, <1>8, <3>1, <3>4, <4>1 DEF ConfigInv
    <3> QED
      BY <3>2, <3>3, <3>4
  <2> QED
    BY <1>4, <2>1, <2>2
<1> QED
  BY <1>1, <1>3, <1>10, <1>11, <1>12 DEF ConfigInv

\* A slot is complete with its third register, and no other one is touched.
LEMMA SlotKept ==
    ASSUME HostInv, ProgramStep
    PROVE  /\ id_mem' \in [Entries -> [value : MatchValues, mask : MaskValues, fi : FiFrames]]
           /\ SlotInv'
<1> DEFINE a == Head(todo)
           n == Made + 1
           idx == key[2]
<1>1. HostTypeOK /\ SlotInv /\ WantInv /\ Length \in Nat
  BY LengthIsNat DEF HostInv
<1>2. /\ a \in Accesses /\ n \in 1 .. 7 + Length /\ Item(n, a)
      /\ Configuration(a) \/ Slot(a) \/ MuRegister(a)
  BY NextAccess
<1>3. Made \in Int /\ wanted \in Wants
      /\ id_mem \in [Entries -> [value : MatchValues, mask : MaskValues, fi : FiFrames]]
  BY <1>1 DEF HostTypeOK, Made
<1>4. \/ n < 7 + Length /\ Made' = n /\ UNCHANGED operatorVars
      \/ n = 7 + Length /\ Carried
  BY OperatorKeeps
<1> HIDE DEF a
<1>5. CASE n > 7 /\ key[1] = "set_fi"
  <2>1. n \in {8, 9, 10} /\ idx \in Entries /\ Length = 3
    BY <1>1, <1>2, <1>5, Operations DEF Length
  <2>2. SlotItem(n, a, idx) /\ a.op \in SlotOps
    BY <1>1, <1>2, <1>5, Operations DEF Item, CommandItem
  <2>3. id_mem' = [id_mem EXCEPT ![idx][a.op] = a.v]
    BY <1>1, <1>2, <2>2, Registers DEF SlotItem
  <2>4. wanted.slots[idx] \in [value : MatchValues, mask : MaskValues, fault : FaultValues]
        /\ id_mem[idx] \in [value : MatchValues, mask : MaskValues, fi : FiFrames]
    BY <1>3, <2>1 DEF Wants
  <2>5. \A e \in Entries : e /= idx => id_mem'[e] = id_mem[e]
    BY <1>3, <2>3
  <2>6. /\ n = 8  => id_mem'[idx] = [id_mem[idx] EXCEPT !.value = wanted.slots[idx].value]
        /\ n = 9  => id_mem'[idx] = [id_mem[idx] EXCEPT !.mask = wanted.slots[idx].mask]
        /\ n = 10 => /\ id_mem'[idx] = [id_mem[idx] EXCEPT !.fi = a.v]
                     /\ a.v \in FiFrames
                     /\ a.v = Meant(wanted.slots[idx].fault)
    BY <1>3, <2>1, <2>2, <2>3 DEF SlotItem
  <2>7. id_mem'[idx] \in [value : MatchValues, mask : MaskValues, fi : FiFrames]
    BY <2>1, <2>4, <2>6
  <2>8. id_mem' \in [Entries -> [value : MatchValues, mask : MaskValues, fi : FiFrames]]
    <3>1. DOMAIN id_mem' = Entries /\ id_mem' = [e \in Entries |-> id_mem'[e]]
      BY <1>3, <2>3
    <3> QED
      BY <1>3, <2>5, <2>7, <3>1
  <2>9. /\ Made >= 8 => id_mem[idx].value = wanted.slots[idx].value
        /\ Made >= 9 => id_mem[idx].mask = wanted.slots[idx].mask
    BY <1>1, <1>5, <2>1 DEF SlotInv
  <2>10. /\ n >= 8 => id_mem'[idx].value = wanted.slots[idx].value
         /\ n >= 9 => id_mem'[idx].mask = wanted.slots[idx].mask
         /\ n >= 10 => id_mem'[idx].fi = Meant(wanted.slots[idx].fault)
    BY <1>3, <2>1, <2>4, <2>6, <2>9
  <2>11. CASE n < 7 + Length
    <3>1. Made' = n /\ UNCHANGED operatorVars
      BY <1>1, <1>3, <1>4, <2>11
    <3>2. ASSUME NEW e \in Entries, Fixed(<< "set_fi", e >>)'
          PROVE  SlotAs(id_mem[e], want.slots[e])'
      <4>1. Fixed(<< "set_fi", e >>) /\ key = << "set_fi", idx >>
        BY <1>1, <1>5, <3>1, <3>2 DEF Fixed, operatorVars, HostTypeOK, Keys,
                                       Programming, Idle
      <4>2. e /= idx
        BY <4>1 DEF Fixed
      <4> QED
        BY <1>1, <2>5, <3>1, <4>1, <4>2 DEF SlotInv, SlotAs, operatorVars
    <3> QED
      BY <2>1, <2>8, <2>10, <3>1, <3>2 DEF SlotInv, operatorVars
  <2>12. CASE n = 10 /\ Carried
    <3>1. want' = wanted /\ owed' = owed \ {key} /\ key' = Idle
      BY <2>12 DEF Carried
    <3>2. key = << "set_fi", idx >>
      BY <1>1, <1>5 DEF HostTypeOK, Keys, Programming, Idle
    <3>3. ASSUME NEW e \in Entries, Fixed(<< "set_fi", e >>)'
          PROVE  SlotAs(id_mem[e], want.slots[e])'
      <4>1. CASE e = idx
        BY <2>10, <2>12, <3>1, <4>1 DEF SlotAs
      <4>2. CASE e /= idx
        <5>1. Fixed(<< "set_fi", e >>) /\ wanted.slots[e] = want.slots[e]
          BY <1>1, <3>1, <3>2, <3>3, <4>2 DEF Fixed, WantInv
        <5> QED
          BY <1>1, <2>5, <3>1, <4>2, <5>1 DEF SlotInv, SlotAs
      <4> QED
        BY <4>1, <4>2
    <3> QED
      BY <2>8, <3>1, <3>3 DEF SlotInv, Idle
  <2> QED
    BY <1>4, <2>1, <2>11, <2>12
<1>6. CASE ~(n > 7 /\ key[1] = "set_fi")
  <2>1. id_mem' = id_mem
    <3>1. a.op \in ConfigOps \cup MuOps
      BY <1>1, <1>2, <1>3, <1>6, Operations
    <3> QED
      BY <1>1, <1>2, <3>1, Registers
  <2>2. CASE Made' = n /\ UNCHANGED operatorVars
    <3>1. key[1] = "set_fi" => ~(Made' >= 8) /\ ~(Made' >= 9)
      BY <1>3, <1>6, <2>2
    <3> QED
      BY <1>1, <1>3, <2>1, <2>2, <3>1 DEF SlotInv, Fixed, operatorVars
  <2>3. CASE n = 7 + Length /\ Carried
    <3>1. \A e \in Entries : key /= << "set_fi", e >>
      <4>1. ASSUME NEW e \in Entries, key = << "set_fi", e >> PROVE FALSE
        <5>1. Length = 3
          BY <4>1 DEF Length
        <5> QED
          BY <1>6, <2>3, <4>1, <5>1
      <4> QED
        BY <4>1
    <3>2. want' = wanted /\ owed' = owed \ {key} /\ key' = Idle
      BY <2>3 DEF Carried
    <3> QED
      BY <1>1, <1>3, <2>1, <3>1, <3>2 DEF SlotInv, Fixed, WantInv, Idle
  <2> QED
    BY <1>4, <2>2, <2>3
<1> QED
  BY <1>5, <1>6

\* No write is on its way any more when the core comes into operation.
LEMMA WritesSettle ==
    ASSUME HostInv, ProgramStep
    PROVE  /\ was_written' \in Bit
           /\ mu' \in [data : Words, addr : Nat, valid : Bit]
           /\ bram_write' \in [en : Bit, entry : Entries, seg : Segments, data : Words]
           /\ Banks'
           /\ \A e \in Entries, s \in Segments : Written(e, s)' = Stored(e, s)
           /\ PendingInv'
<1> DEFINE a == Head(todo)
           n == Made + 1
           idx == key[2]
<1>1. HostTypeOK /\ PendingInv /\ ConfigInv /\ Length \in Nat
  BY LengthIsNat DEF HostInv
<1>2. /\ a \in Accesses /\ n \in 1 .. 7 + Length /\ Item(n, a) /\ Unit
      /\ Configuration(a) \/ Slot(a) \/ MuRegister(a)
  BY NextAccess
<1>3. Made \in Int /\ key \in Keys /\ mu \in [data : Words, addr : Nat, valid : Bit]
      /\ SegCnt \in Nat /\ SegStride \in Nat
  BY <1>1, MemoryAssumption DEF HostTypeOK, Made
<1>4. \/ n < 7 + Length /\ Made' = n /\ UNCHANGED operatorVars
      \/ n = 7 + Length /\ Carried
  BY OperatorKeeps
<1>5. /\ bram_write' \in [en : Bit, entry : Entries, seg : Segments, data : Words]
      /\ Banks'
      /\ bram_write'.en = 1 => Pending
      /\ \A e \in Entries, s \in Segments : Written(e, s)' = Stored(e, s)
  BY <1>1, <1>2, EdgeWrites DEF PendingInv
<1> HIDE DEF a
<1>8. Settled("cfg_en") = 1 /\ (key[1] /= "enable" \/ Made < 1) => Settled("cfg_en")' = 1
  <2>1. "cfg_en" \in Fields
    BY FieldFacts
  <2>2. CASE ~Configures(key)
    BY <2>1, <2>2, ConfigStep
  <2>3. CASE key[1] = "enable"
    <3>1. Configures(key)
      BY <2>3 DEF Configures
    <3>2. Length = 2
      BY <1>3, <2>3, <3>1, CommandSets DEF Length, Configures
    <3> QED
      BY <1>3, <2>3, <3>2, ConfigStep
  <2>4. CASE key[1] \in {"disable", "conf_can", "conf_fi"}
    <3>1. Configures(key)
      BY <2>4 DEF Configures
    <3>2. "cfg_en" \in DOMAIN Setting(key) => Setting(key)["cfg_en"] = 1
      BY <1>3, <2>4, <3>1, CommandSets
    <3> QED
      BY <2>1, <3>2, ConfigStep
  <2> QED
    BY <2>2, <2>3, <2>4 DEF Configures
<1>6. CASE n > 7 /\ key[1] = "set_vec"
  <2>1. n - 7 \in Nat \ {0} /\ a.op \in MuOps /\ VectorItem(n, a, idx)
        /\ n - 7 <= 4 * SegCnt
    BY <1>1, <1>2, <1>3, <1>6, Operations DEF Item, CommandItem
  <2>2. /\ UNCHANGED << config, id_mem, base, cfg_save >>
        /\ mu' = [mu EXCEPT ![a.op] = a.v]
        /\ was_written' = IF a.op = "valid" THEN 1 ELSE 0
    BY <1>1, <1>2, <2>1, Registers
  <2>3. \/ a.op = "data" /\ a.v \in Words
        \/ a.op = "addr" /\ a.v \in Nat
        \/ a.op = "valid" /\ a.v \in Bit
    <3>1. Turn(n - 7) \in {1, 2, 3, 4} /\ SegAt(n) \in Segments
      <4> HIDE DEF n
      <4>1. Turn(n - 7) \in 1 .. 4 /\ SegCnt - WordAt(n - 7) \in Segments
        BY <2>1, Turns
      <4> QED
        BY <4>1 DEF SegAt
    <3>2. idx \in Nat /\ SegAt(n) \in Nat
      BY <1>3, <1>6, <3>1 DEF Keys, Idle, Programming, Segments
    <3>3. idx * SegStride + SegAt(n) \in Nat
      BY <1>3, <3>2
    <3> HIDE DEF n, idx
    <3> QED
      BY <2>1, <3>1, <3>3 DEF VectorItem, Bit
  <2>4. mu' \in [data : Words, addr : Nat, valid : Bit]
    BY <1>3, <2>2, <2>3
  <2>5. /\ Value("cfg_en") = 1 /\ Settled("cfg_en") = 1
        /\ Value("cfg_en")' = 1 /\ Settled("cfg_en")' = 1
    <3>1. key \in Programming
      BY <1>3, <1>6 DEF Keys, Idle, Programming
    <3>2. Settled("cfg_en") = 1
      BY <1>1, <3>1 DEF ConfigInv
    <3> QED
      BY <1>6, <3>2, SettledNow, ConfigStep, FieldFacts DEF Configures
  <2>6. key'[1] /= "enable"
    BY <1>4, <1>6 DEF Carried, operatorVars, Idle
  <2> QED
    BY <1>5, <2>2, <2>4, <2>5, <2>6 DEF PendingInv, Bit
<1>7. CASE ~(n > 7 /\ key[1] = "set_vec")
  <2>1. mu' = mu /\ was_written' = 0
    <3>1. a.op \in ConfigOps \cup SlotOps
      BY <1>1, <1>2, <1>3, <1>7, Operations
    <3> QED
      BY <1>1, <1>2, <3>1, Registers
  <2>2. bram_write'.en = 1 => Value("cfg_en")' = 1 /\ Settled("cfg_en")' = 1
    <3>1. SUFFICES ASSUME Pending PROVE Settled("cfg_en")' = 1
      BY <1>5, ConfigStep
    <3>2. Settled("cfg_en") = 1
      BY <1>1, <3>1 DEF PendingInv
    <3>3. key[1] /= "enable" \/ Made < 1
      BY <1>1, <1>3, <3>1 DEF PendingInv, Pending
    <3> QED
      BY <1>8, <3>2, <3>3, ConfigStep
  <2>3. key'[1] = "enable" /\ Made' >= 2 => bram_write'.en = 0
    <3>1. SUFFICES ASSUME key'[1] = "enable", Made' >= 2 PROVE ~Pending
      BY <1>5 DEF Bit
    <3>2. key[1] = "enable" /\ Made >= 1
      BY <1>3, <1>4, <3>1 DEF Carried, operatorVars, Idle
    <3> QED
      BY <1>1, <3>2 DEF PendingInv, Pending
  <2> QED
    BY <1>3, <1>5, <2>1, <2>2, <2>3 DEF PendingInv, Pending, Bit
<1> QED
  BY <1>6, <1>7

\* One access of set-vector: the word that it concerns moves on, the others stay.
LEMMA VectorAccess ==
    ASSUME HostInv, ProgramStep, key[1] = "set_vec",
           NEW n, n = Made + 1, n > 7, NEW idx, idx = key[2]
    PROVE  /\ Arrived(n, idx)'
           /\ \A e \in Entries, s \in Segments :
                e /= idx => Stored(e, s)' = Stored(e, s)
<1> DEFINE a == Head(todo)
<1>1. HostTypeOK /\ VectorInv
  BY DEF HostInv
<1>2. /\ a \in Accesses /\ n \in 1 .. 7 + Length /\ Item(n, a)
      /\ Configuration(a) \/ Slot(a) \/ MuRegister(a)
  BY NextAccess
<1>3. /\ Made \in Int
      /\ mu \in [data : Words, addr : Nat, valid : Bit]
      /\ SegCnt \in Nat /\ SegStride \in Nat /\ SegCnt <= SegStride /\ idx \in Nat
      /\ wanted' = wanted
  <2>1. idx \in Nat
    BY <1>1 DEF HostTypeOK, Keys, Idle, Programming
  <2>2. Length \in Nat
    BY <1>1, LengthIsNat
  <2> QED
    BY <1>1, <2>1, <2>2, MemoryAssumption, OperatorKeeps
       DEF HostTypeOK, Made, Carried, operatorVars
<1>4. \A e \in Entries, s \in Segments : Written(e, s)' = Stored(e, s)
  BY WritesSettle
<1> HIDE DEF a
<1>5. n - 7 \in Nat \ {0} /\ n - 7 <= 4 * SegCnt /\ a.op \in MuOps /\ VectorItem(n, a, idx)
  BY <1>1, <1>2, <1>3, Operations DEF Item, CommandItem
<1>6. /\ mu' = [mu EXCEPT ![a.op] = a.v]
      /\ was_written' = IF a.op = "valid" THEN 1 ELSE 0
  BY <1>1, <1>2, <1>5, Registers
<1> DEFINE turn == Turn(n - 7)
           seg == SegAt(n)
<1>7. turn \in 1 .. 4 /\ seg \in Segments
  <2>1. Turn(n - 7) \in 1 .. 4 /\ SegCnt - WordAt(n - 7) \in Segments
    BY <1>5, Turns
  <2> QED
    BY <2>1 DEF SegAt
<1>8. seg \in Int /\ seg >= 0 /\ seg < SegCnt /\ Segments \subseteq Int
      /\ \A s \in Segments : s < SegCnt
  BY <1>3, <1>7 DEF Segments
\* What the access before this one has left.
<1>9. ASSUME turn /= 1
      PROVE  /\ idx \in Entries => mu.data = wanted.vectors[idx][seg]
             /\ turn >= 3 => mu.addr = idx * SegStride + seg
             /\ idx \in Entries => \A s \in Segments :
                  s > seg \/ (s = seg /\ turn >= 4) =>
                      Stored(idx, s) = wanted.vectors[idx][s]
  <2>1. n - 7 /= 1
    BY <1>9 DEF Turn
  <2>2. n - 8 \in Nat \ {0} /\ (n - 8) + 1 = n - 7 /\ Made = n - 1 /\ Made - 7 = n - 8
        /\ Made >= 8
    BY <1>3, <1>5, <2>1
  <2>3. Turn(n - 8) = turn - 1 /\ WordAt(n - 8) = WordAt(n - 7)
    <3>1. \/ Turn(n - 8) < 4 /\ turn = Turn(n - 8) + 1 /\ WordAt(n - 7) = WordAt(n - 8)
          \/ Turn(n - 8) = 4 /\ turn = 1 /\ WordAt(n - 7) = WordAt(n - 8) + 1
      BY <2>2, Turns
    <3>2. Turn(n - 8) \in 1 .. 4
      BY <2>2, Turns
    <3> QED
      BY <1>9, <3>1, <3>2
  <2>4. SegAt(Made) = seg
    BY <2>2, <2>3 DEF SegAt
  <2>5. Arrived(Made, idx)
    BY <1>1, <2>2 DEF VectorInv
  <2> HIDE DEF turn, seg
  <2> QED
    BY <1>7, <1>9, <2>2, <2>3, <2>4, <2>5 DEF Arrived
<1>10. ASSUME turn = 1, idx \in Entries, NEW s \in Segments, s > seg
       PROVE  Stored(idx, s) = wanted.vectors[idx][s]
  <2>1. n - 7 /= 1
    <3>1. WordAt(1) = 1
      BY DEF WordAt
    <3> QED
      BY <1>3, <1>8, <1>10, <3>1 DEF SegAt
  <2>2. n - 8 \in Nat \ {0} /\ (n - 8) + 1 = n - 7 /\ Made = n - 1 /\ Made - 7 = n - 8
        /\ Made >= 8
    BY <1>3, <1>5, <2>1
  <2>3. Turn(n - 8) = 4 /\ WordAt(n - 7) = WordAt(n - 8) + 1 /\ WordAt(n - 8) \in Nat
    <3>1. \/ Turn(n - 8) < 4 /\ turn = Turn(n - 8) + 1 /\ WordAt(n - 7) = WordAt(n - 8)
          \/ Turn(n - 8) = 4 /\ turn = 1 /\ WordAt(n - 7) = WordAt(n - 8) + 1
      BY <2>2, Turns
    <3>2. Turn(n - 8) \in 1 .. 4 /\ WordAt(n - 8) \in Nat
      BY <2>2, Turns
    <3> QED
      BY <1>10, <3>1, <3>2
  <2>4. SegAt(Made) = seg + 1
    BY <1>3, <2>2, <2>3 DEF SegAt
  <2>5. s >= SegAt(Made)
    BY <1>8, <1>10, <2>4
  <2>6. Arrived(Made, idx)
    BY <1>1, <2>2 DEF VectorInv
  <2> QED
    BY <1>8, <1>10, <2>2, <2>3, <2>4, <2>5, <2>6 DEF Arrived
<1> HIDE DEF turn, seg
<1>11. /\ turn = 1 => a.op = "data" /\ a.v \in Words
                       /\ (idx \in Entries => a.v = wanted.vectors[idx][seg])
       /\ turn = 2 => a.op = "addr" /\ a.v = idx * SegStride + seg
       /\ turn = 3 => a.op = "valid" /\ a.v = 1
       /\ turn = 4 => a.op = "valid" /\ a.v = 0
  BY <1>5 DEF VectorItem, turn, seg
<1>12. ASSUME turn \in 1 .. 3 /\ idx \in Entries =>
                mu'.data = wanted.vectors[idx][seg],
              turn \in 2 .. 3 => mu'.addr = idx * SegStride + seg,
              idx \in Entries => \A s \in Segments :
                s > seg \/ (s = seg /\ turn >= 3) =>
                    Stored(idx, s)' = wanted.vectors[idx][s]
       PROVE  Arrived(n, idx)'
  BY <1>3, <1>12 DEF Arrived, turn, seg
<1>13. CASE turn /= 3
  <2>1. ~Pending'
    BY <1>3, <1>6, <1>7, <1>11, <1>13 DEF Pending
  <2>2. \A e \in Entries, s \in Segments : Stored(e, s)' = Stored(e, s)
    BY <1>4, <2>1 DEF Stored
  <2>3. CASE turn = 1
    <3>1. mu' = [mu EXCEPT !.data = a.v] /\ mu'.data = a.v
      BY <1>3, <1>6, <1>11, <2>3
    <3>2. idx \in Entries => \A s \in Segments : s > seg =>
              Stored(idx, s)' = wanted.vectors[idx][s]
      BY <1>10, <2>2, <2>3
    <3> QED
      BY <1>11, <1>12, <2>2, <2>3, <3>1, <3>2
  <2>4. CASE turn = 2
    <3>1. mu'.addr = a.v /\ mu'.data = mu.data
      BY <1>3, <1>6, <1>11, <2>4
    <3>2. idx \in Entries => \A s \in Segments : s > seg =>
              Stored(idx, s)' = wanted.vectors[idx][s]
      BY <1>9, <2>2, <2>4
    <3> QED
      BY <1>9, <1>11, <1>12, <2>2, <2>4, <3>1, <3>2
  <2>5. CASE turn = 4
    <3>1. idx \in Entries => \A s \in Segments : s > seg \/ s = seg =>
              Stored(idx, s)' = wanted.vectors[idx][s]
      BY <1>9, <2>2, <2>5
    <3> QED
      BY <1>12, <2>2, <2>5, <3>1
  <2> QED
    BY <1>7, <1>13, <2>3, <2>4, <2>5
<1>14. CASE turn = 3
  <2>1. Pending' /\ mu'.addr = idx * SegStride + seg /\ mu'.data = mu.data
    BY <1>3, <1>6, <1>9, <1>11, <1>14 DEF Pending
  <2>2. ASSUME NEW e \in Entries, NEW s \in Segments
        PROVE  Stored(e, s)' = IF e = idx /\ s = seg THEN mu.data ELSE Stored(e, s)
    <3>1. mu'.addr = e * SegStride + s => idx = e /\ seg = s
      <4>1. e \in Int /\ idx \in Int /\ seg \in 0 .. SegStride - 1
            /\ s \in 0 .. SegStride - 1
        BY <1>3, <1>8, MemoryAssumption, PowersAssumption DEF Entries, Segments
      <4> QED
        BY <1>3, <2>1, <4>1, RowAddresses
    <3>2. Stored(e, s)' = IF mu'.addr = e * SegStride + s THEN mu'.data ELSE Written(e, s)'
      BY <2>1 DEF Stored
    <3> QED
      BY <1>4, <2>1, <3>1, <3>2
  <2>3. idx \in Entries => \A s \in Segments : s > seg \/ s = seg =>
            Stored(idx, s)' = wanted.vectors[idx][s]
    BY <1>7, <1>9, <1>14, <2>2
  <2>4. Arrived(n, idx)'
    BY <1>9, <1>12, <1>14, <2>1, <2>3
  <2> QED
    BY <2>2, <2>4
<1> QED
  BY <1>13, <1>14

LEMMA VectorKept ==
    ASSUME HostInv, ProgramStep
    PROVE  VectorInv'
<1>1. HostTypeOK /\ VectorInv /\ WantInv /\ Length \in Nat
  BY LengthIsNat DEF HostInv
<1>2. PICK n : n = Made + 1
  OBVIOUS
<1>3. /\ Head(todo) \in Accesses /\ n \in 1 .. 7 + Length /\ Item(n, Head(todo))
      /\ Configuration(Head(todo)) \/ Slot(Head(todo)) \/ MuRegister(Head(todo))
  BY <1>2, NextAccess
<1>4. \/ n < 7 + Length /\ Made' = n /\ UNCHANGED operatorVars
      \/ n = 7 + Length /\ Carried
  BY <1>2, OperatorKeeps
<1>5. \A e \in Entries, s \in Segments : Written(e, s)' = Stored(e, s)
  BY WritesSettle
<1>6. SegCnt \in Nat \ {0} /\ Made \in Int
  BY <1>1, MemoryAssumption DEF HostTypeOK, Made
<1>7. CASE n > 7 /\ key[1] = "set_vec"
  <2>1. PICK idx : idx = key[2]
    OBVIOUS
  <2>2. key = << "set_vec", idx >>
    BY <1>1, <1>7, <2>1 DEF HostTypeOK, Keys, Programming, Idle
  <2>3. Arrived(n, idx)'
        /\ \A e \in Entries, s \in Segments : e /= idx => Stored(e, s)' = Stored(e, s)
    BY <1>2, <1>7, <2>1, VectorAccess
  <2>4. CASE Made' = n /\ UNCHANGED operatorVars
    <3>1. \A e \in Entries : Fixed(<< "set_vec", e >>)' =>
              e /= idx /\ Fixed(<< "set_vec", e >>)
      BY <2>2, <2>4 DEF Fixed, operatorVars
    <3>2. Arrived(Made, key[2])'
      BY <2>1, <2>3, <2>4 DEF Arrived, operatorVars
    <3> QED
      BY <1>1, <2>3, <2>4, <3>1, <3>2 DEF VectorInv, operatorVars
  <2>5. CASE n = 7 + Length /\ Carried
    <3>1. want' = wanted /\ wanted' = wanted /\ owed' = owed \ {key} /\ key' = Idle
      BY <2>5 DEF Carried
    <3>2. n - 7 = 4 * SegCnt
      BY <1>1, <1>7, <2>5 DEF Length
    <3>3. Turn(n - 7) = 4 /\ SegAt(n) = 0
      <4>1. Turn(n - 7) = 1 + ((4 * SegCnt - 1) % 4)
            /\ SegAt(n) = SegCnt - (1 + (4 * SegCnt - 1) \div 4)
        BY <3>2 DEF Turn, SegAt, WordAt
      <4>2. (4 * SegCnt - 1) % 4 = 3 /\ (4 * SegCnt - 1) \div 4 = SegCnt - 1
        BY <1>6
      <4> QED
        BY <1>6, <4>1, <4>2
    <3>4. ASSUME NEW e \in Entries, Fixed(<< "set_vec", e >>)', NEW s \in Segments
          PROVE  Stored(e, s)' = want'.vectors[e][s]
      <4>1. CASE e = idx
        <5>1. s > 0 \/ s = 0
          BY <1>6 DEF Segments
        <5> QED
          BY <2>3, <3>1, <3>3, <4>1, <5>1 DEF Arrived
      <4>2. CASE e /= idx
        <5>1. Fixed(<< "set_vec", e >>) /\ wanted.vectors[e] = want.vectors[e]
          BY <1>1, <2>2, <3>1, <3>4, <4>2 DEF Fixed, WantInv
        <5> QED
          BY <1>1, <2>3, <3>1, <4>2, <5>1 DEF VectorInv
      <4> QED
        BY <4>1, <4>2
    <3> QED
      BY <3>1, <3>4 DEF VectorInv, Idle
  <2> QED
    BY <1>4, <2>4, <2>5
<1>8. CASE ~(n > 7 /\ key[1] = "set_vec")
  <2>1. mu' = mu /\ was_written' = 0
    <3>1. Head(todo).op \in ConfigOps \cup SlotOps
      BY <1>1, <1>3, <1>6, <1>8, Operations
    <3> QED
      BY <1>1, <1>3, <3>1, Registers
  <2>2. \A e \in Entries, s \in Segments : Stored(e, s)' = Stored(e, s)
    BY <1>5, <2>1 DEF Stored, Pending
  <2>3. CASE Made' = n /\ UNCHANGED operatorVars
    <3>1. key'[1] = "set_vec" => ~(Made' >= 8)
      BY <1>3, <1>8, <2>3 DEF operatorVars
    <3> QED
      BY <1>1, <2>2, <2>3, <3>1 DEF VectorInv, Fixed, operatorVars
  <2>4. CASE n = 7 + Length /\ Carried
    <3>1. \A e \in Entries : key /= << "set_vec", e >>
      <4>1. ASSUME NEW e \in Entries, key = << "set_vec", e >> PROVE FALSE
        <5>1. Length = 4 * SegCnt
          BY <4>1 DEF Length
        <5> QED
          BY <1>6, <1>8, <2>4, <4>1, <5>1
      <4> QED
        BY <4>1
    <3>2. want' = wanted /\ owed' = owed \ {key} /\ key' = Idle
      BY <2>4 DEF Carried
    <3> QED
      BY <1>1, <2>2, <3>1, <3>2 DEF VectorInv, Fixed, WantInv, Idle
  <2> QED
    BY <1>4, <2>3, <2>4
<1> QED
  BY <1>7, <1>8

LEMMA ProgramKeeps ==
    ASSUME HostInv, ProgramStep
    PROVE  HostInv'
<1>1. HostTypeOK'
  <2>1. /\ ConfigTypeOK'
        /\ id_mem' \in [Entries -> [value : MatchValues, mask : MaskValues, fi : FiFrames]]
        /\ mu' \in [data : Words, addr : Nat, valid : Bit] /\ was_written' \in Bit
        /\ bram_write' \in [en : Bit, entry : Entries, seg : Segments, data : Words]
        /\ Banks'
    BY ConfigStep, SlotKept, WritesSettle
  <2>2. /\ awake' \in Bit /\ key' \in Keys /\ owed' \in SUBSET Programming
        /\ mode' \in {"on", "off", "unsure"} /\ want' \in Wants /\ wanted' \in Wants
        /\ todo' \in Seq(Accesses)
    BY ConfigKept, OperatorKeeps, ProgramAdvances
  <2> QED
    BY <2>1, <2>2 DEF HostTypeOK
<1> QED
  BY <1>1, ProgramAdvances, OperatorKeeps, ConfigStep, ConfigKept, SlotKept,
     WritesSettle, VectorKept DEF HostInv
-----------------------------------------------------------------------------
(* The theorems *)

LEMMA HostInvInit ==
    ASSUME HostBusInit
    PROVE  HostInv
<1>1. /\ MuInit /\ HostInit /\ awake = 0 /\ mode = "unsure" /\ key = Idle
      /\ owed = {} /\ unset = {} /\ wanted = want /\ todo = << >>
      /\ want = [timing |-> [f \in TimingFields |-> {ResetTiming[f]}],
                 slots |-> [e \in Entries |-> Unset],
                 vectors |-> [e \in Entries |-> NoData]]
  BY DEF HostBusInit, HostInit
<1>2. 0 \in Words /\ 0 \in Segments /\ 0 \in Entries
  BY MemoryAssumption, PowersAssumption DEF Segments, Entries
<1>3. /\ config = [r \in ConfigRegisters |-> [f \in FieldsOf(r) |->
                      IF f = "cfg_en" THEN 0 ELSE ResetTiming[f]]]
      /\ \A f \in TimingFields : ResetTiming[f] \in Nat
  BY <1>1, OperatorAssumption DEF HostInit
<1>4. /\ \A r \in ConfigRegisters : config[r] \in Contents(r)
      /\ Value("cfg_en") = 0 /\ \A f \in TimingFields : Value(f) = ResetTiming[f]
  <2>1. \A r \in ConfigRegisters : \A f \in FieldsOf(r) :
            config[r][f] = IF f = "cfg_en" THEN 0 ELSE ResetTiming[f]
    BY <1>3
  <2>2. \A f \in Fields : f = "cfg_en" \/ f \in TimingFields
    BY DEF TimingFields
  <2>3. \A r \in ConfigRegisters : \A f \in FieldsOf(r) : config[r][f] \in Nat
    BY <1>3, <2>1, <2>2, FieldFacts
  <2>4. \A r \in ConfigRegisters : config[r] \in Contents(r)
    BY <1>3, <2>3 DEF Contents
  <2> QED
    BY <2>1, <2>4, FieldFacts DEF Value, TimingFields
<1>5. ConfigTypeOK
  BY <1>3, <1>4 DEF ConfigTypeOK, Bit
<1>6. HostTypeOK
  <2>1. FiNull \in FiFrames /\ Unset \in [value : MatchValues, mask : MaskValues,
                                          fault : FaultValues]
    BY DEF FiNull, FiFrames, FiTypes, Unset, MatchValues, MaskValues, FaultValues, Kinds,
           OneHot
  <2>2. id_mem \in [Entries -> [value : MatchValues, mask : MaskValues, fi : FiFrames]]
    BY <1>1, <2>1 DEF HostInit, MatchValues, MaskValues
  <2>3. want \in Wants
    BY <1>1, <1>2, <1>3, <2>1 DEF Wants, NoData
  <2>4. Banks /\ bram_write \in [en : Bit, entry : Entries, seg : Segments, data : Words]
    BY <1>1, <1>2 DEF MuInit, Banks, NoWrite, Bit
  <2>5. Idle \in Keys /\ todo \in Seq(Accesses)
    BY <1>1 DEF Keys
  <2> QED
    BY <1>1, <1>2, <1>5, <2>2, <2>3, <2>4, <2>5 DEF HostTypeOK, HostInit, Bit
<1>7. ~Busy /\ (\A f : Settled(f) = Value(f)) /\ key[1] = "none" /\ Timed(key) = {}
  BY <1>1 DEF Busy, Settled, Idle, Timed
<1>8. TodoInv
  <2>1. Len(todo) = 0 /\ Length = 0
    BY <1>1, <1>7 DEF Length, Configures
  <2> QED
    BY <2>1 DEF TodoInv
<1>9. WantInv /\ ProbeInv /\ SetterInv
  BY <1>1, <1>7 DEF WantInv, ProbeInv, SetterInv
<1>10. ConfigInv
  <2>1. Idle \notin Programming /\ "brp_nomi" \in TimingFields
    BY FieldFacts DEF Idle, Programming, TimingFields
  <2>2. \A f \in TimingFields : Reckoned(f)
    BY <1>1, <1>4, <1>7 DEF Reckoned
  <2> QED
    BY <1>1, <1>4, <1>7, <2>1, <2>2 DEF ConfigInv
<1>11. SlotInv
  BY <1>1, <1>7 DEF SlotInv, SlotAs, Unset, Meant, Meaning, HostInit, FiNull
<1>12. ~Pending /\ bram_write.en = 0
  BY <1>1 DEF Pending, HostInit, MuInit, NoWrite
<1>13. PendingInv
  BY <1>7, <1>12 DEF PendingInv
<1>14. VectorInv
  <2>1. ASSUME NEW e \in Entries, NEW s \in Segments
        PROVE  Stored(e, s) = want.vectors[e][s]
    <3>1. Stored(e, s) = WideWord(e)[s]
      BY <1>12 DEF Stored, Written
    <3>2. WideWord(e)[s] = 0
      <4>1. /\ s < Bank0Segs => e * Bank0Segs + s \in 0 .. 2 ^ TreeDepth * Bank0Segs - 1
            /\ s >= Bank0Segs => e * Bank1Segs + (s - Bank0Segs)
                                  \in 0 .. 2 ^ TreeDepth * Bank1Segs - 1
        <5>1. /\ s < Bank0Segs => s \in 0 .. Bank0Segs - 1
              /\ s >= Bank0Segs => s - Bank0Segs \in 0 .. Bank1Segs - 1
              /\ Bank0Segs \in Nat /\ Bank1Segs \in Nat
          BY MemoryAssumption DEF Segments, Bank1Segs
        <5> QED
          BY <5>1, RowInBank
      <4>2. s < Bank0Segs \/ s >= Bank0Segs
        BY MemoryAssumption DEF Segments
      <4> QED
        BY <1>1, <4>1, <4>2 DEF MuInit, WideWord
    <3> QED
      BY <1>1, <3>1, <3>2 DEF NoData
  <2> QED
    BY <1>7, <2>1 DEF VectorInv
<1> QED
  BY <1>6, <1>8, <1>9, <1>10, <1>11, <1>13, <1>14 DEF HostInv

LEMMA HostInvStep ==
    ASSUME HostInv, \A line \in FiLines : line.mask /= NoMask, [HostBusNext]_hostBusVars
    PROVE  HostInv'
<1>1. HostTypeOK /\ ConfigInv
  BY DEF HostInv
<1>2. CASE Edge
  BY <1>1, <1>2, EdgeStep DEF Edge, busVars, HostTypeOK, ConfigInv
<1>3. CASE StartFrame
  BY <1>3, EdgeStep DEF StartFrame, Bit
<1>4. CASE IdComplete
  BY <1>1, <1>4, EdgeStep DEF IdComplete, HostTypeOK, ConfigInv
<1>5. CASE EndFrame
  BY <1>5, EdgeStep DEF EndFrame, Bit
<1>6. CASE ProgramStep
  BY <1>6, ProgramKeeps
<1>7. CASE Kill
  BY <1>7, KillStep
<1>8. CASE Operator
  BY <1>8, RunConfiguration, RunSlot, RunVector DEF Operator
<1>9. CASE UNCHANGED hostBusVars
  <2>1. /\ UNCHANGED << muVars, id_mem, config, mu, was_written, todo, base >>
        /\ UNCHANGED << cfg_save, awake, mode, key, owed, unset, want, wanted >>
    BY <1>9 DEF hostBusVars, hostVars, programVars, busVars, operatorVars
  <2>2. HostTypeOK'
    BY <1>1, <2>1 DEF HostTypeOK, ConfigTypeOK, Value, Banks, muVars
  <2>3. /\ Length' = Length /\ Made' = Made /\ Busy' = Busy
        /\ \A f : Settled(f)' = Settled(f) /\ Value(f)' = Value(f)
        /\ \A f : Reckoned(f)' = Reckoned(f)
    BY <2>1 DEF Length, Configures, Made, Busy, Settled, Value, Reckoned
  <2>4. TodoInv'
    <3>1. \A n, a : Item(n, a)' = Item(n, a)
      BY <2>1 DEF Item, CommandItem, SlotItem, VectorItem
    <3> QED
      BY <2>1, <2>3, <3>1 DEF HostInv, TodoInv
  <2>5. WantInv' /\ ProbeInv' /\ SlotInv'
    BY <2>1, <2>3 DEF HostInv, WantInv, ProbeInv, SlotInv, Fixed
  <2>6. ConfigInv' /\ SetterInv'
    <3>1. \A i \in 1 .. Made - 7 :
            Value(Setters(key)[i].op)' = Value(Setters(key)[i].op)
      BY <2>1, <2>3 DEF Value
    <3> QED
      BY <2>1, <2>3, <3>1 DEF HostInv, ConfigInv, SetterInv
  <2>7. PendingInv'
    BY <2>1, <2>3 DEF HostInv, PendingInv, Pending, muVars
  <2>8. VectorInv'
    <3>1. \A e, s : Stored(e, s)' = Stored(e, s)
      BY <2>1 DEF Stored, Pending, Written, WideWord, muVars
    <3> QED
      BY <2>1, <2>3, <3>1 DEF HostInv, VectorInv, Arrived, Fixed
  <2> QED
    BY <2>2, <2>4, <2>5, <2>6, <2>7, <2>8 DEF HostInv
<1> QED
  BY <1>2, <1>3, <1>4, <1>5, <1>6, <1>7, <1>8, <1>9 DEF HostBusNext

\* Where the command line names every mask, each register and RAM word is, at
\* every moment, what the accesses made so far and those to come account for.
THEOREM HostInvariant ==
    ASSUME \A line \in FiLines : line.mask /= NoMask
    PROVE  HostBusSpec => []HostInv
<1>1. HostBusInit => HostInv
  BY HostInvInit
<1>2. HostInv /\ [HostBusNext]_hostBusVars => HostInv'
  BY HostInvStep
<1> QED
  BY <1>1, <1>2, PTL DEF HostBusSpec

LEMMA Configured ==
    ASSUME HostInv
    PROVE  RunsAsConfigured
<1>1. HostTypeOK /\ WantInv /\ ConfigInv /\ SlotInv /\ PendingInv /\ VectorInv
  BY DEF HostInv
<1>2. SUFFICES ASSUME awake = 1
      PROVE  /\ \A f \in TimingFields : Value(f) \in want.timing[f] \cup wanted.timing[f]
             /\ \A e \in Entries :
                  /\ SlotAs(id_mem[e], want.slots[e])
                  /\ WideWord(e) = want.vectors[e]
  BY DEF RunsAsConfigured, SlotAs
<1>3. Value("cfg_en") = 0 /\ Settled("cfg_en") = 0 /\ \A f \in Fields : Value(f) = Settled(f)
  BY <1>1, <1>2, SettledNow, FieldFacts DEF ConfigInv
<1>4. \A f \in TimingFields : Value(f) \in want.timing[f] \cup wanted.timing[f]
  <2>1. \A f \in TimingFields : Reckoned(f)
    BY <1>1, <1>3 DEF ConfigInv
  <2> QED
    BY <1>3, <2>1 DEF Reckoned, TimingFields
<1>5. ASSUME NEW e \in Entries
      PROVE  Fixed(<< "set_fi", e >>) /\ Fixed(<< "set_vec", e >>)
  <2>1. e \in Nat
    BY MemoryAssumption, PowersAssumption DEF Entries
  <2>2. << "set_fi", e >> \in Programming /\ << "set_vec", e >> \in Programming
    BY <2>1 DEF Programming
  <2> QED
    BY <1>1, <1>3, <2>2 DEF ConfigInv, Fixed
<1>6. ~Pending /\ bram_write.en /= 1
  BY <1>1, <1>3 DEF PendingInv
<1>7. ASSUME NEW e \in Entries
      PROVE  WideWord(e) = want.vectors[e]
  <2>1. \A s \in Segments : WideWord(e)[s] = want.vectors[e][s]
    BY <1>1, <1>5, <1>6 DEF VectorInv, Stored, Written
  <2>2. want.vectors[e] \in [Segments -> Words]
    BY <1>1 DEF HostTypeOK, Wants
  <2>3. WideWord(e) = [s \in Segments |-> WideWord(e)[s]]
    BY DEF WideWord
  <2> QED
    BY <2>1, <2>2, <2>3
<1> QED
  BY <1>1, <1>4, <1>5, <1>7 DEF SlotInv

\* A core that takes part in a frame does so with the slots, faults and vectors
\* that the operator asked for, and with a value of each timing field that he
\* reckons with: the one asked for, or while the field is being set under frames
\* or after that was killed, the one from before or after. For every number of
\* slots and segments, every command line with a mask, and wherever an invocation
\* was killed (RunsAsConfigured; main.rs:71, cli.rs:215, 237 and 340).
THEOREM RunsAsAsked ==
    ASSUME \A line \in FiLines : line.mask /= NoMask
    PROVE  HostBusSpec => []RunsAsConfigured
<1>1. HostInv => RunsAsConfigured
  BY Configured
<1> QED
  BY <1>1, HostInvariant, PTL
-----------------------------------------------------------------------------
(* What the override unit is handed *)

Serves(e) == e \in Entries /\ First(e, Hits(id))
TreeServes ==
    \E a \in Nat :
        /\ id_ready = 0 => a = 0
        /\ TreeOf(node, Hits(id), a)
        /\ fi_frame_ready = 1 => a >= TreeDepth
FrameServes ==
    /\ fi_frame_ready \in Bit
    /\ fi_frame_ready = 1 => \E e : Serves(e) /\ fi_frame = id_mem[e].fi
Holds(word) == \A e : Serves(e) => word = WideWord(e)
ReadServes ==
    /\ ram_read_state \in {"AWAIT_MATCH", "AWAIT_MEM", "READY", "SKIP_READ"}
    /\ ram_read_state = "AWAIT_MATCH" => data_vector_ready /= 1 /\ mem_rd_latency = 0
    /\ ram_read_state /= "AWAIT_MATCH" => fi_frame_ready = 1 /\ bram_rstb = 0
    /\ ram_read_state = "AWAIT_MEM" =>
          /\ data_vector_ready /= 1
          /\ IF mem_rd_latency = 1 THEN bram_enb = 0 /\ Holds(ram_latch)
             ELSE bram_enb = 1 /\ Serves(bram_addrb)
    /\ ram_read_state = "READY" => bram_enb = 0 /\ Holds(ram_latch) /\ Holds(ram_out)
    /\ ram_read_state = "SKIP_READ" => fi_frame.type /= "FI_DATA"
ServeInv ==
    /\ id_ready \in Bit /\ (awake = 0 => id_ready = 0)
    /\ awake = 1 => TreeServes /\ FrameServes /\ ReadServes

\* An edge of an awake unit; no slot and no RAM word changes under it.
LEMMA ServingEdge ==
    ASSUME ServeInv, awake = 1, awake' = 1, Unit, bram_write.en /= 1,
           UNCHANGED << id, id_mem >>, id_ready' \in Bit, id_ready = 1 => id_ready' = 1
    PROVE  ServeInv'
<1>1. TreeServes /\ FrameServes /\ ReadServes /\ id_ready \in {0, 1}
  BY DEF ServeInv, Bit
<1>2. /\ ChildNodeIntegrate(0, id, id_ready) /\ ExtractFiFrame(0)
      /\ bram_rstb' = 0 /\ (AwaitMatch \/ AwaitMem \/ VectorReady)
      /\ WriteRoute /\ ReadBanks
  <2>1. 1 - awake = 0
    OBVIOUS
  <2>2. WriteRamToBuffer(0) /\ ChildNodeIntegrate(0, id, id_ready) /\ ExtractFiFrame(0)
        /\ WriteRoute /\ ReadBanks
    BY <2>1 DEF Unit, MuClock
  <2> QED
    BY <2>2 DEF WriteRamToBuffer
<1>3. \A e : (Serves(e)' <=> Serves(e)) /\ WideWord(e)' = WideWord(e)
  <2>1. Hits(id)' = Hits(id)
    BY DEF Hits, Matches
  <2>2. bank0' = bank0 /\ bank1' = bank1
    BY <1>2 DEF WriteRoute
  <2> QED
    BY <2>1, <2>2 DEF Serves, WideWord, First
<1>4. ASSUME NEW e, NEW f, Serves(e), Serves(f)
      PROVE  e = f
  <2>1. e \in Int /\ f \in Int
    BY <1>4, Ends DEF Serves
  <2> QED
    BY <1>4, <2>1 DEF Serves, First
<1>5. PICK a \in Nat :
        /\ id_ready = 0 => a = 0
        /\ TreeOf(node, Hits(id), a)
        /\ fi_frame_ready = 1 => a >= TreeDepth
  BY <1>1 DEF TreeServes
<1>6. /\ Root.match = 1 <=> a >= TreeDepth /\ Hits(id) /= {}
      /\ Root.match = 1 => Serves(Root.idx) /\ Root.ready = 1
  <2>1. Hits(id) \in SUBSET Entries
    BY DEF Hits
  <2>2. /\ Root.match = 1 <=> a >= TreeDepth /\ Hits(id) /= {}
        /\ Root.match = 1 => First(Root.idx, Hits(id)) /\ Root.ready = 1
    BY <1>5, <2>1, RootReports
  <2> QED
    BY <2>1, <2>2 DEF Serves, First
<1>7. fi_frame_ready = 1 => Root.match = 1 /\ fi_frame_ready' = 1 /\ fi_frame' = fi_frame
  <2>1. SUFFICES ASSUME fi_frame_ready = 1
        PROVE  Root.match = 1 /\ fi_frame_ready' = 1 /\ fi_frame' = fi_frame
    OBVIOUS
  <2>2. PICK e : Serves(e) /\ fi_frame = id_mem[e].fi
    BY <1>1, <2>1 DEF FrameServes
  <2>3. Root.match = 1 /\ Root.idx = e /\ Root.ready = 1
    BY <1>4, <1>5, <1>6, <2>1, <2>2 DEF Serves, First
  <2> QED
    BY <1>2, <2>2, <2>3 DEF ExtractFiFrame
<1>8. TreeServes'
  <2>1. PICK b \in Nat : b = IF id_ready = 1 THEN a + 1 ELSE 0
    OBVIOUS
  <2>2. Ages(id_ready, a, b)
    BY <1>1, <1>5, <2>1, MemoryAssumption DEF Ages
  <2>3. TreeOf(node', Hits(id), b)
    BY <1>2, <1>5, <2>2, TreeAdvances
  <2>4. fi_frame_ready' = 1 => b >= TreeDepth
    <3>1. fi_frame_ready' = 1 => a >= TreeDepth
      BY <1>2, <1>5, <1>6 DEF ExtractFiFrame
    <3>2. TreeDepth \in Nat \ {0}
      BY MemoryAssumption
    <3> QED
      BY <1>1, <1>5, <2>1, <3>1, <3>2
  <2>5. TreeOf(node, Hits(id), b)'
    <3>1. Hits(id)' = Hits(id)
      BY DEF Hits, Matches
    <3> QED
      BY <2>3, <3>1 DEF TreeOf
  <2>6. id_ready' = 0 => b = 0
    BY <1>1, <2>1
  <2> QED
    BY <2>4, <2>5, <2>6 DEF TreeServes
<1>9. FrameServes'
  <2>1. CASE Root.match = 1
    <3>1. Serves(Root.idx) /\ fi_frame' = id_mem[Root.idx].fi
      BY <1>2, <1>6, <2>1 DEF ExtractFiFrame
    <3> QED
      BY <1>2, <1>3, <1>6, <2>1, <3>1 DEF FrameServes, ExtractFiFrame, Bit
  <2>2. CASE Root.match /= 1
    <3>1. fi_frame' = fi_frame /\ fi_frame_ready' = fi_frame_ready
      BY <1>2, <2>2 DEF ExtractFiFrame
    <3> QED
      BY <1>1, <1>3, <3>1 DEF FrameServes
  <2> QED
    BY <2>1, <2>2
<1>10. \A word : Holds(word)' <=> Holds(word)
  BY <1>3 DEF Holds
<1>11. ASSUME AwaitMatch
       PROVE  ReadServes'
  <2>1. data_vector_ready' /= 1 /\ mem_rd_latency' = 0 /\ bram_rstb' = 0
    BY <1>1, <1>2, <1>11 DEF AwaitMatch, ReadServes
  <2>2. CASE fi_frame_ready = 0
    <3>1. ram_read_state' = "AWAIT_MATCH"
      BY <1>11, <2>2 DEF AwaitMatch
    <3> QED
      BY <2>1, <3>1 DEF ReadServes
  <2>3. CASE fi_frame_ready = 1 /\ fi_frame.type = "FI_DATA"
    <3>1. ram_read_state' = "AWAIT_MEM" /\ bram_addrb' = Root.idx /\ bram_enb' = 1
      BY <1>11, <2>3 DEF AwaitMatch
    <3>2. Serves(Root.idx)
      BY <1>6, <1>7, <2>3
    <3> QED
      BY <1>3, <1>7, <2>1, <2>3, <3>1, <3>2 DEF ReadServes
  <2>4. CASE fi_frame_ready = 1 /\ fi_frame.type /= "FI_DATA"
    <3>1. ram_read_state' = "SKIP_READ"
      BY <1>11, <2>4 DEF AwaitMatch
    <3> QED
      BY <1>7, <2>1, <2>4, <3>1 DEF ReadServes
  <2> QED
    BY <1>1, <2>2, <2>3, <2>4 DEF FrameServes, Bit
<1>12. ASSUME AwaitMem
       PROVE  ReadServes'
  <2>1. ram_read_state = "AWAIT_MEM"
    BY <1>12 DEF AwaitMem
  <2>2. fi_frame_ready' = 1 /\ bram_rstb' = 0 /\ data_vector_ready' /= 1 /\ bram_enb' = 0
    BY <1>1, <1>2, <1>7, <1>12, <2>1 DEF AwaitMem, ReadServes
  <2>3. CASE mem_rd_latency = 1
    <3>1. ram_read_state' = "READY"
      BY <1>12, <2>3 DEF AwaitMem
    <3>2. Holds(ram_latch) /\ ram_latch' = ram_latch /\ ram_out' = ram_latch
      BY <1>1, <1>2, <2>1, <2>3 DEF ReadServes, ReadBanks
    <3>3. Holds(ram_latch)' /\ Holds(ram_out)'
      BY <1>10, <3>2 DEF Holds
    <3> QED
      BY <2>2, <3>1, <3>3 DEF ReadServes
  <2>4. CASE mem_rd_latency /= 1
    <3>1. ram_read_state' = "AWAIT_MEM" /\ mem_rd_latency' = 1
      BY <1>12, <2>1, <2>4 DEF AwaitMem
    <3>2. Serves(bram_addrb) /\ ram_latch' = WideWord(bram_addrb)
      BY <1>1, <1>2, <2>1, <2>4 DEF ReadServes, ReadBanks
    <3>3. Holds(ram_latch)'
      BY <1>3, <1>4, <3>2 DEF Holds
    <3> QED
      BY <2>2, <3>1, <3>3 DEF ReadServes
  <2> QED
    BY <2>3, <2>4
<1>13. ASSUME VectorReady
       PROVE  ReadServes'
  <2>1. /\ ram_read_state' = ram_read_state /\ ram_read_state \in {"READY", "SKIP_READ"}
        /\ bram_rstb' = 0 /\ bram_enb' = 0
        /\ fi_frame_ready' = 1 /\ fi_frame' = fi_frame
    BY <1>1, <1>2, <1>7, <1>13 DEF VectorReady, ReadServes
  <2>2. CASE ram_read_state = "READY"
    <3>1. Holds(ram_latch) /\ ram_latch' = ram_latch /\ ram_out' = ram_latch
      BY <1>1, <1>2, <2>2 DEF ReadServes, ReadBanks
    <3>2. Holds(ram_latch)' /\ Holds(ram_out)'
      BY <1>10, <3>1 DEF Holds
    <3> QED
      BY <2>1, <2>2, <3>2 DEF ReadServes
  <2>3. CASE ram_read_state = "SKIP_READ"
    BY <1>1, <2>1, <2>3 DEF ReadServes
  <2> QED
    BY <2>1, <2>2, <2>3
<1>14. ReadServes'
  BY <1>2, <1>11, <1>12, <1>13
<1> QED
  BY <1>8, <1>9, <1>14 DEF ServeInv

\* A core in operation: nothing is being programmed, no write is on its way.
LEMMA Quiet ==
    ASSUME HostInv, awake = 1
    PROVE  bram_write.en /= 1 /\ ~Pending /\ Settled("cfg_en") = 0
           /\ Value("cfg_en") = 0 /\ ({key} \cup owed) \cap Programming = {}
<1>1. HostTypeOK /\ ConfigInv /\ PendingInv
  BY DEF HostInv
<1>2. Value("cfg_en") = 0 /\ Settled("cfg_en") = 0
  BY <1>1, SettledNow, FieldFacts DEF ConfigInv
<1> QED
  BY <1>1, <1>2 DEF ConfigInv, PendingInv

LEMMA ServeStep ==
    ASSUME HostInv, ServeInv, [HostBusNext]_hostBusVars
    PROVE  ServeInv'
<1>1. HostTypeOK /\ id_ready \in Bit /\ (awake = 0 => id_ready = 0) /\ awake \in {0, 1}
  BY DEF HostInv, HostTypeOK, ServeInv, Bit
<1>2. ASSUME UNCHANGED << muVars, id_mem, busVars >>
      PROVE  ServeInv'
  <2>1. /\ UNCHANGED << node, fi_frame, fi_frame_ready, data_vector_ready >>
        /\ UNCHANGED << ram_read_state, mem_rd_latency, bram_addrb, bram_enb, bram_rstb >>
        /\ UNCHANGED << bank0, bank1, ram_latch, ram_out, id_mem, awake, id, id_ready >>
    BY <1>2 DEF muVars, busVars
  <2>2. Hits(id)' = Hits(id) /\ \A e : WideWord(e)' = WideWord(e)
    BY <2>1 DEF Hits, Matches, WideWord
  <2>3. TreeServes' = TreeServes
    BY <2>1, <2>2 DEF TreeServes, TreeOf
  <2>4. FrameServes' = FrameServes /\ ReadServes' = ReadServes
    BY <2>1, <2>2 DEF FrameServes, ReadServes, Holds, Serves, First
  <2> QED
    BY <2>1, <2>3, <2>4 DEF ServeInv
<1>3. ASSUME awake' = 0, id_ready' = 0
      PROVE  ServeInv'
  BY <1>3 DEF ServeInv, Bit
<1>4. CASE Edge
  <2>1. CASE awake = 1
    BY <1>1, <1>4, <2>1, Quiet, ServingEdge DEF Edge, NoAccess, busVars
  <2>2. CASE awake = 0
    BY <1>1, <1>3, <1>4, <2>2 DEF Edge, busVars
  <2> QED
    BY <1>1, <2>1, <2>2
<1>5. CASE StartFrame
  <2>1. id_ready' = 0 /\ awake' = 1 /\ 1 - awake = 1
    BY <1>1, <1>5 DEF StartFrame
  <2>2. /\ node' = [n \in Nodes |-> NodeReset] /\ fi_frame_ready' = 0
        /\ ram_read_state' = "AWAIT_MATCH" /\ mem_rd_latency' = 0 /\ data_vector_ready' = 0
    BY <1>5, <2>1 DEF StartFrame, Unit, MuClock, ChildNodeIntegrate, ExtractFiFrame,
                      WriteRamToBuffer, ReadSleep
  <2>3. TreeOf(node, Hits(id), 0)'
    <3>1. TreeOf(node', Hits(id)', 0)
      BY <2>2, TreeCleared
    <3> QED
      BY <3>1 DEF TreeOf
  <2>4. TreeServes'
    BY <2>1, <2>2, <2>3 DEF TreeServes
  <2>5. FrameServes' /\ ReadServes'
    BY <2>2 DEF FrameServes, ReadServes, Bit
  <2> QED
    BY <2>1, <2>4, <2>5 DEF ServeInv, Bit
<1>6. CASE IdComplete
  BY <1>1, <1>6, Quiet, ServingEdge DEF IdComplete, NoAccess, Bit
<1>7. CASE EndFrame
  BY <1>3, <1>7 DEF EndFrame
<1>8. CASE ProgramStep
  <2>1. CASE Value("cfg_en")' = 1
    BY <1>3, <1>8, <2>1 DEF ProgramStep
  <2>2. CASE Value("cfg_en")' /= 1 /\ awake = 0
    BY <1>1, <1>3, <1>8, <2>2 DEF ProgramStep, busVars
  <2>3. CASE Value("cfg_en")' /= 1 /\ awake = 1
    <3>1. UNCHANGED busVars /\ Unit
      BY <1>8, <2>3 DEF ProgramStep
    <3>2. key \notin Programming /\ bram_write.en /= 1
      BY <2>3, Quiet
    <3>3. key[1] /= "set_fi"
      BY <1>1, <3>2 DEF HostTypeOK, Keys, Programming, Idle
    <3>4. id_mem' = id_mem
      <4>1. /\ Head(todo) \in Accesses /\ Made + 1 \in 1 .. 7 + Length
            /\ Item(Made + 1, Head(todo))
            /\ Configuration(Head(todo)) \/ Slot(Head(todo)) \/ MuRegister(Head(todo))
        BY <1>8, NextAccess
      <4>2. Head(todo).op \in ConfigOps \cup MuOps
        <5>1. Length \in Nat
          BY <1>1, LengthIsNat
        <5>2. PICK n : n = Made + 1
          OBVIOUS
        <5> QED
          BY <1>1, <3>3, <4>1, <5>1, <5>2, Operations
      <4> QED
        BY <1>1, <4>1, <4>2, Registers
    <3> QED
      BY <1>1, <2>3, <3>1, <3>2, <3>4, ServingEdge DEF busVars
  <2> QED
    BY <1>1, <2>1, <2>2, <2>3
<1>9. CASE Kill
  BY <1>2, <1>9 DEF Kill
<1>10. CASE Operator
  BY <1>2, <1>10 DEF Operator, RunStatus, RunEnable, RunDisable, RunConfCan, RunConfFi,
                     RunSetFi, RunSetVec, Launch
<1>11. CASE UNCHANGED hostBusVars
  BY <1>2, <1>11 DEF hostBusVars
<1> QED
  BY <1>4, <1>5, <1>6, <1>7, <1>8, <1>9, <1>10, <1>11 DEF HostBusNext

LEMMA Served ==
    ASSUME HostInv, ServeInv
    PROVE  ServedAsWanted
<1>1. SUFFICES ASSUME awake = 1
      PROVE  /\ fi_frame_ready = 1 =>
                  Fitting /= {} /\ fi_frame = Meant(want.slots[Expected].fault)
             /\ data_vector_ready = 1 =>
                  /\ fi_frame_ready = 1
                  /\ fi_frame.type = "FI_DATA" => ram_out = want.vectors[Expected]
  BY DEF ServedAsWanted
<1>2. FrameServes /\ ReadServes
  BY <1>1 DEF ServeInv
<1>3. \A e \in Entries :
        /\ id_mem[e].value = want.slots[e].value /\ id_mem[e].mask = want.slots[e].mask
        /\ id_mem[e].fi = Meant(want.slots[e].fault)
        /\ WideWord(e) = want.vectors[e]
  BY <1>1, Configured DEF RunsAsConfigured
<1>4. Fitting = Hits(id)
  BY <1>3 DEF Fitting, Fits, Hits, Matches
<1>5. ASSUME NEW e, Serves(e)
      PROVE  Expected = e /\ e \in Entries /\ Fitting /= {}
  <2>1. e \in Fitting /\ (\A f \in Fitting : e <= f)
    BY <1>4, <1>5 DEF Serves, First
  <2>2. \A d \in Fitting : (\A f \in Fitting : d <= f) => d = e
    <3>1. Fitting \subseteq Int
      BY Ends DEF Fitting
    <3> QED
      BY <2>1, <3>1
  <2> QED
    BY <1>5, <2>1, <2>2 DEF Expected, Serves
<1>6. fi_frame_ready = 1 =>
        Fitting /= {} /\ fi_frame = Meant(want.slots[Expected].fault)
  BY <1>2, <1>3, <1>5 DEF FrameServes
<1>7. ASSUME data_vector_ready = 1
      PROVE  /\ fi_frame_ready = 1
             /\ fi_frame.type = "FI_DATA" => ram_out = want.vectors[Expected]
  <2>1. ram_read_state \in {"READY", "SKIP_READ"} /\ fi_frame_ready = 1
    BY <1>2, <1>7 DEF ReadServes
  <2>2. ASSUME fi_frame.type = "FI_DATA"
        PROVE  ram_out = want.vectors[Expected]
    <3>1. Holds(ram_out)
      BY <1>2, <2>1, <2>2 DEF ReadServes
    <3>2. PICK e : Serves(e)
      BY <1>2, <2>1 DEF FrameServes
    <3> QED
      BY <1>3, <1>5, <3>1, <3>2 DEF Holds
  <2> QED
    BY <2>1, <2>2
<1> QED
  BY <1>6, <1>7

\* The override unit is handed the fault of the slot that the operator expects
\* to match, with its field and metadata, and its vector as typed, whatever the
\* identifier, the slots and the payloads are (ServedAsWanted; cli.rs:340,
\* memory_unit.vhd:267).
THEOREM ServedAsAsked ==
    ASSUME \A line \in FiLines : line.mask /= NoMask
    PROVE  HostBusSpec => []ServedAsWanted
<1>1. HostBusInit => HostInv /\ ServeInv
  BY HostInvInit DEF HostBusInit, ServeInv, Bit
<1>2. HostInv /\ ServeInv /\ [HostBusNext]_hostBusVars => HostInv' /\ ServeInv'
  BY HostInvStep, ServeStep
<1>3. HostInv /\ ServeInv => ServedAsWanted
  BY Served
<1> QED
  BY <1>1, <1>2, <1>3, PTL DEF HostBusSpec
=============================================================================
