----------------------------- MODULE FieldStore -----------------------------
(***************************************************************************)
(* What the register class promises its callers (the interface ICanFdFi):  *)
(* a register is a record of named fields, every method takes effect at    *)
(* one moment, a set method gives the fields it names the values passed    *)
(* and changes no other, a get method returns what the fields hold. There  *)
(* are no words, shifts, masks or bus accesses here.                       *)
(*                                                                         *)
(* The class has no lock. The promise is made for the kept registers:      *)
(* those for which the callers take turns and pass values that fit the     *)
(* field. Nothing is promised for others, except that they do not disturb  *)
(* the kept ones.                                                          *)
(***************************************************************************)
CONSTANTS
    Registers,      \* names of the registers
    Initial,        \* [register -> [field -> value]], after reset
    Volatile        \* registers that the core writes

VARIABLES
    kept,           \* registers with the promise; never changes
    fields,         \* [kept -> [field -> value]]
    event           \* the method that just took effect: its register, and the
                    \* values that it has returned or was passed, by field

storeVars == << kept, fields, event >>

NoEvent == [method |-> "none", of |-> {}, values |-> [f \in {} |-> {}]]
Got(r, vs) == [method |-> "get", of |-> {r}, values |-> vs]
Set(r, vs) == [method |-> "set", of |-> {r}, values |-> vs]

StoreInit ==
    /\ kept \in SUBSET Registers
    /\ fields = [r \in kept |-> Initial[r]]
    /\ event = NoEvent

\* get_<register> returns all fields of one moment, get_<register>_<field> one.
Get(r) ==
    /\ event'.method = "get" /\ event'.of = {r}
    /\ \A f \in DOMAIN event'.values : event'.values[f] = fields[r][f]
    /\ UNCHANGED << kept, fields >>

\* set_<register> and set_<register>_<field>.
Put(r) ==
    /\ event'.method = "set" /\ event'.of = {r}
    /\ LET new == event'.values
       IN  fields' = [fields EXCEPT ![r] = [f \in DOMAIN Initial[r] |->
                        IF f \in DOMAIN new THEN new[f] ELSE fields[r][f]]]
    /\ UNCHANGED kept

\* The core changes a register that the bus can only read.
Present(r) ==
    /\ fields' = [fields EXCEPT ![r] = fields'[r]]
    /\ UNCHANGED << kept, event >>

\* A method on another register, or the first half of one on any register.
Elsewhere ==
    /\ event'.of \cap kept = {}
    /\ UNCHANGED << kept, fields >>

StoreNext ==
    \/ Elsewhere
    \/ \E r \in kept : Get(r) \/ Put(r) \/ (r \in Volatile /\ Present(r))

StoreSpec == StoreInit /\ [][StoreNext]_storeVars
=============================================================================
