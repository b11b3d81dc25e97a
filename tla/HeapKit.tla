------------------------------- MODULE HeapKit -------------------------------
(***************************************************************************)
(* The typed property store of src/src/core/heapkit.c.                     *)
(*                                                                         *)
(* g_type_registry[0 .. g_type_count - 1] holds one entry per registered   *)
(* (plugin id, struct name), with the struct's zeroed instance.  Plugins   *)
(* write and read fields through their stubs (hk_set_field/hk_get_field);  *)
(* the gateway library reads a whole instance as text (hk_serialize, via   *)
(* gateway_hk_get_type) and writes text back into it (hk_deserialize, via  *)
(* gateway_hk_set_type).  Nothing in heapkit.c takes a lock.               *)
(*                                                                         *)
(* Text is a sequence of symbols: a field name, an int, "true"/"false" and *)
(* one character are one symbol each, and the delimiters "=", ";" and the  *)
(* quote Q are symbols of their own.  An int is the one symbol of its %d  *)
(* digits, which atoi reads back exactly; a character that no property    *)
(* tells apart from another letter is "other".                            *)
(***************************************************************************)
EXTENDS Integers, Sequences, SequencesExt, TLC

CONSTANTS
    Pids,       \* plugin ids that own types
    TypeNames,  \* struct names of the schema files
    Layout,     \* TypeNames -> Seq(field names): the struct's fields in order
    Kind,       \* field name -> field_type_t of that field
    MaxTypes,   \* MAX_REGISTERED_TYPES
    Ints,       \* int values plugins store
    Chars,      \* characters plugins store, delimiters included
    Strs,       \* strings plugins store (sequences of Chars)
    NUL,        \* the character '\0'
    NULL,       \* a NULL char*
    MaxHkOps    \* bound: field writes and gateway requests

Q == "\""

Fields == UNION {Range(Layout[t]) : t \in TypeNames}

\* What may stand in a text: anything serialize writes or a string holds.
\* %d of an int: its digits, one symbol.
IntText(n) == ToString(n)

Sym == Fields \cup {IntText(n) : n \in Ints} \cup Chars \cup {"=", ";", Q, "true", "false", "other"}

\* The C values of one field, by field_type_t; a ptr field is never
\* written by text, so its value is left abstract.
Val(f) ==
    CASE Kind[f] = "int"    -> Ints
      [] Kind[f] = "bool"   -> BOOLEAN
      [] Kind[f] = "char"   -> Chars \cup {NUL, "other"}
      [] Kind[f] = "string" -> {NULL} \cup Seq(Sym)
      [] Kind[f] = "ptr"    -> {NULL}

\* What a plugin passes to hk_set_field.
Written(f) == IF Kind[f] = "string" THEN Strs \cup {NULL} ELSE Val(f)

VARIABLES
    reg,    \* g_type_registry[0 .. g_type_count - 1]
    gw,     \* the gateway library's buffer: the last hk_get_type text
    hkOps   \* field writes and gateway requests so far

hkvars == <<reg, gw, hkOps>>

TypeOK ==
    /\ Len(reg) <= MaxTypes
    /\ \A i \in DOMAIN reg :
          /\ reg[i].pid \in Pids /\ reg[i].type \in TypeNames
          /\ DOMAIN reg[i].data = Fields
          /\ \A f \in Fields : reg[i].data[f] \in Val(f)
    /\ gw \in {NULL} \cup [pid : Pids, type : TypeNames, text : Seq(Sym)]
    /\ hkOps \in 0..MaxHkOps

-----------------------------------------------------------------------------
(* Registration *)

\* calloc(1, info->size): every field zero.
ZeroOf(f) ==
    CASE Kind[f] = "int"  -> 0
      [] Kind[f] = "bool" -> FALSE
      [] Kind[f] = "char" -> NUL
      [] OTHER            -> NULL

Fresh(p, t) == [pid |-> p, type |-> t, data |-> [f \in Fields |-> ZeroOf(f)]]

\* find_registered: the first entry of (plugin_id, name), 0 if none.
Find(r, p, t) == SelectInSeq(r, LAMBDA e : e.pid = p /\ e.type = t)

\* The full test of hk_type_register when it compares names only.
RegisterCodeAnyPlugin(r, p, t) ==
    IF \E i \in DOMAIN r : r[i].type = t THEN 1
    ELSE IF Len(r) >= MaxTypes THEN -2 ELSE 0

\* hk_type_register's result before the calloc: 1 for a type already
\* registered for the plugin, -2 for a full registry, else 0.
RegisterCode(r, p, t) ==
    IF Find(r, p, t) # 0 THEN 1
    ELSE IF Len(r) >= MaxTypes THEN -2 ELSE 0

\* A standalone hk_type_register; a failed calloc (-3) adds nothing.
TypeRegister(p, t) ==
    /\ reg' \in IF RegisterCode(reg, p, t) = 0 THEN {reg, Append(reg, Fresh(p, t))}
                ELSE {reg}
    /\ UNCHANGED <<gw, hkOps>>

-----------------------------------------------------------------------------
(* Text: hk_serialize and hk_deserialize *)

\* The first character of a symbol, as val[0] reads it.
CharOf(x) == IF x \in Chars THEN x ELSE "other"

\* One field as hk_serialize formats it into temp[], cut at the first NUL
\* (strlen/strcat): %c of '\0' ends the string before its ';'.
Fmt(f, v) ==
    CASE Kind[f] = "int"    -> <<f, "=", IntText(v), ";">>
      [] Kind[f] = "bool"   -> <<f, "=", IF v THEN "true" ELSE "false", ";">>
      [] Kind[f] = "char"   -> IF v = NUL THEN <<f, "=">> ELSE <<f, "=", v, ";">>
      [] Kind[f] = "string" -> <<f, "=", Q>> \o (IF v = NULL THEN <<>> ELSE v) \o <<Q, ";">>
      [] Kind[f] = "ptr"    -> <<>>

\* hk_serialize of an instance of t.
Serialize(data, t) == FlattenSeq([i \in DOMAIN Layout[t] |-> Fmt(Layout[t][i], data[Layout[t][i]])])

\* strtok(buf, ";") repeated: the non-empty runs between ";".
RECURSIVE Strtok(_, _)
Strtok(s, cur) ==
    CASE s = <<>> -> IF cur = <<>> THEN <<>> ELSE <<cur>>
      [] Head(s) = ";" /\ cur = <<>> -> Strtok(Tail(s), <<>>)
      [] Head(s) = ";" -> <<cur>> \o Strtok(Tail(s), <<>>)
      [] OTHER -> Strtok(Tail(s), Append(cur, Head(s)))

\* atoi: the int whose digits start val, 0 if none.
Atoi(val) ==
    IF val # <<>> /\ \E n \in Ints : val[1] = IntText(n)
    THEN CHOOSE n \in Ints : val[1] = IntText(n) ELSE 0

\* The value the switch of hk_deserialize stores from the text val.
Parse(f, val, old) ==
    CASE Kind[f] = "int"    -> Atoi(val)
      [] Kind[f] = "bool"   -> val = <<"true">>
      [] Kind[f] = "char"   -> IF val = <<>> THEN NUL ELSE CharOf(val[1])
      [] Kind[f] = "string" -> IF val # <<>> /\ val[1] = Q /\ Last(val) = Q
                               THEN SubSeq(val, 2, Len(val) - 1) ELSE val
      [] Kind[f] = "ptr"    -> old

\* One token: split at its first "=", look the key up among t's fields,
\* store the parsed value; a token without "=" or with an unknown key is
\* skipped.
ApplyToken(t, data, tok) ==
    LET eq  == SelectInSeq(tok, LAMBDA x : x = "=")
        key == SubSeq(tok, 1, eq - 1)
        val == SubSeq(tok, eq + 1, Len(tok))
    IN  IF eq = 0 \/ Len(key) # 1 \/ key[1] \notin Range(Layout[t]) THEN data
        ELSE [data EXCEPT ![key[1]] = Parse(key[1], val, @)]

\* hk_deserialize of text into an instance of t.
Deserialize(data, t, text) ==
    LET step(d, tok) == ApplyToken(t, d, tok)
    IN  FoldLeft(step, data, Strtok(text, <<>>))

-----------------------------------------------------------------------------
(* Operations after registration *)

\* hk_set_field from a plugin's stub: memcpy into the instance.  The
\* "[set]" line it sends when a gateway is connected is one more producer
\* of the Gateway module's feed and is left out here.
SetField(p, t, f, v) ==
    LET i == Find(reg, p, t) IN
    /\ hkOps < MaxHkOps
    /\ i # 0 /\ f \in Range(Layout[t])
    /\ reg' = [reg EXCEPT ![i].data[f] = v]
    /\ hkOps' = hkOps + 1
    /\ UNCHANGED gw

\* gateway_hk_get_type: hk_serialize into the library's buffer.
GetType(p, t) ==
    LET i == Find(reg, p, t) IN
    /\ hkOps < MaxHkOps
    /\ i # 0
    /\ gw' = [pid |-> p, type |-> t, text |-> Serialize(reg[i].data, t)]
    /\ hkOps' = hkOps + 1
    /\ UNCHANGED reg

\* gateway_hk_set_type with the text the library read: hk_deserialize.
SetType ==
    LET i == Find(reg, gw.pid, gw.type) IN
    /\ gw # NULL /\ hkOps < MaxHkOps
    /\ reg' = [reg EXCEPT ![i].data = Deserialize(@, gw.type, gw.text)]
    /\ gw' = NULL
    /\ hkOps' = hkOps + 1

Init == reg = <<>> /\ gw = NULL /\ hkOps = 0

Next ==
    \/ \E p \in Pids, t \in TypeNames : TypeRegister(p, t)
    \/ \E p \in Pids, t \in TypeNames : GetType(p, t)
    \/ \E p \in Pids, t \in TypeNames, f \in Fields :
          \E v \in Written(f) : SetField(p, t, f, v)
    \/ SetType

Spec == Init /\ [][Next]_hkvars

-----------------------------------------------------------------------------
(* Properties *)

\* Text the gateway reads with gateway_hk_get_type and writes straight back
\* with gateway_hk_set_type leaves the instance as it was: hk_deserialize
\* inverts hk_serialize on every instance the store can hold.
MirrorStable ==
    \A i \in DOMAIN reg :
        LET t == reg[i].type IN
        Serialize(Deserialize(reg[i].data, t, Serialize(reg[i].data, t)), t)
            = Serialize(reg[i].data, t)

=============================================================================
