----------------------------- MODULE EnvLoader ------------------------------
(***************************************************************************)
(* tools/envloader/envloader.go: filling a struct from environment         *)
(* variables.  A struct is the sequence of its fields in the order of the  *)
(* walk: a nested struct stands for its fields, a pointer to a struct for  *)
(* itself and then its fields.                                             *)
(***************************************************************************)
EXTENDS Integers, Sequences

(* A text, in an environment variable, a `default` tag or a field, told    *)
(* apart by what strconv makes of it; a number is also a field's value.    *)
Text == [is : {"blank", "word", "truth", "number", "fraction", "pointer"},
         value : Int]
Blank == [is |-> "blank", value |-> 0]
Word(n) == [is |-> "word", value |-> n]
Number(n) == [is |-> "number", value |-> n]
Truth(b) == [is |-> "truth", value |-> IF b THEN 1 ELSE 0]
Allocated == [is |-> "pointer", value |-> 1]

(* field.SetInt and SetUint keep the low bits: ParseInt was asked for 64,  *)
(* whatever the field holds.                                               *)
LowBits(n, bits) == n % (2 ^ bits)
Signed(n, bits) ==
    LET low == LowBits(n, bits)
    IN  IF low < 2 ^ (bits - 1) THEN low ELSE low - 2 ^ bits

(* setFieldValue: the kinds of text each kind of field takes, and what the *)
(* field then holds.                                                       *)
Converts(kind, text) ==
    CASE kind = "string" -> TRUE
      [] kind = "int"    -> text.is = "number"
      [] kind = "uint"   -> text.is = "number" /\ text.value >= 0
      [] kind = "bool"   -> \/ text.is = "truth"
                            \/ text.is = "number" /\ text.value \in {0, 1}
      [] kind = "float"  -> text.is \in {"number", "fraction"}
      [] OTHER           -> FALSE

Converted(kind, bits, text) ==
    CASE kind = "int"  -> Number(Signed(text.value, bits))
      [] kind = "uint" -> Number(LowBits(text.value, bits))
      [] kind = "bool" -> Truth(text.value = 1)
      [] OTHER         -> text

(* The text meant for a field: none without an env tag (`var` is then ""), *)
(* else the variable, else the default.                                    *)
TextFor(field, env) ==
    IF field.var = "" THEN Blank
    ELSE IF env[field.var] # Blank THEN env[field.var]
    ELSE field.default

Refuses(field, env) ==
    /\ TextFor(field, env) # Blank
    /\ ~Converts(field.kind, TextFor(field, env))

(* One turn of loadStruct's loop, for a field that nothing before refused. *)
SetField(field, env, old) ==
    IF field.kind = "pointer" THEN Allocated
    ELSE IF TextFor(field, env) = Blank THEN old
    ELSE Converted(field.kind, field.bits, TextFor(field, env))

(* Load: the loop returns at the first field that refuses its text, and    *)
(* what it set before stays set.  MustLoad panics where Load has an error. *)
LoadFails(fields, env) == \E i \in DOMAIN fields : Refuses(fields[i], env)
Reached(fields, env, i) == \A j \in 1..i : ~Refuses(fields[j], env)
LoadStruct(fields, env, old) ==
    [i \in DOMAIN fields |->
        IF Reached(fields, env, i) THEN SetField(fields[i], env, old[i])
                                   ELSE old[i]]
=============================================================================
