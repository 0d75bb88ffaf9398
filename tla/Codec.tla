------------------------------- MODULE Codec -------------------------------
(***************************************************************************)
(* Encoding and strict decoding of the objects the library stores and      *)
(* exchanges.  A wire string is a sequence of units, a unit standing for   *)
(* one fixed-width field (an integer, a key, a point, a hash).  A format   *)
(* is a sequence of fields, a value a sequence with one entry per field.   *)
(* Where an encoder and its decoder check different things, a field has    *)
(* the set e of what the encoder takes and the set d of what the decoder   *)
(* takes.                                                                  *)
(***************************************************************************)
EXTENDS Integers, Sequences, FiniteSets, SequencesExt

Lit(b) == [t |-> "lit", b |-> b]                  \* a constant
Num(e, d) == [t |-> "num", e |-> e, d |-> d]      \* one unit
Key == [t |-> "key"]                              \* one unit nobody looks into
Blob(e, d) == [t |-> "blob", e |-> e, d |-> d]    \* a length, then that many units
OptBlob == [t |-> "opt"]                          \* 0, or 1 and a blob that is not empty
OptKey(n) == [t |-> "optkey", n |-> n]            \* 0, or 1 and n keys, the first not 0
Rest == [t |-> "rest"]                            \* whatever is left
List(max, fs) == [t |-> "list", max |-> max, fs |-> fs]       \* a count, then entries
Table(max, fs) == [t |-> "table", max |-> max, fs |-> fs]     \* the same, by place
When(i, s) == [t |-> "when", of |-> i, in |-> s]  \* a key, there if field i is in s
ZeroUnless(i, d) == [t |-> "zero", of |-> i, d |-> d]         \* a key; if field i is 0,
                                                              \* 0, read from d

Keys(n) == [i \in 1 .. n |-> Key]
Bool == Num({0, 1}, {0, 1})

-----------------------------------------------------------------------------
RECURSIVE Enc(_, _)

EncField(f, v, val) ==
    CASE f.t \in {"lit", "num", "key"} -> <<v>>
      [] f.t = "blob" -> <<Len(v)>> \o v
      [] f.t = "opt"  -> IF v = << >> THEN <<0>> ELSE <<1, Len(v)>> \o v
      [] f.t = "optkey" -> IF v = << >> \/ Head(v) = 0 THEN <<0>> ELSE <<1>> \o v
      [] f.t = "rest" -> v
      [] f.t \in {"list", "table"} -> <<Len(v)>> \o FlattenSeq([i \in DOMAIN v |-> Enc(f.fs, v[i])])
      [] f.t = "when" -> IF val[f.of] \in f.in THEN <<v>> ELSE << >>
      [] f.t = "zero" -> <<IF val[f.of] = 0 THEN 0 ELSE v>>

Enc(fs, val) == FlattenSeq([i \in DOMAIN fs |-> EncField(fs[i], val[i], val)])

-----------------------------------------------------------------------------
(* Parse(fs, w, val) is empty when w is refused and otherwise holds the    *)
(* value read and the rest of w.                                           *)
RECURSIVE Parse(_, _, _), ParseN(_, _, _, _), ParseField(_, _, _)

From(w, n) == SubSeq(w, n, Len(w))

ParseOne(w, ok) == IF w # << >> /\ ok THEN {[v |-> Head(w), rest |-> Tail(w)]} ELSE {}

ParseBlob(w, d) ==
    IF w # << >> /\ Head(w) \in d /\ Head(w) <= Len(w) - 1
    THEN {[v |-> SubSeq(w, 2, Head(w) + 1), rest |-> From(w, Head(w) + 2)]} ELSE {}

(* An entry goes to the place its first field names, over what is there;   *)
(* the places in use are those an encoder then writes, in their order.     *)
Placed(entries) ==
    LET at(i) == entries[i][1]
        last(n) == CHOOSE i \in DOMAIN entries :
                     at(i) = n /\ \A j \in DOMAIN entries : at(j) = n => j <= i
        places == SetToSortSeq({at(i) : i \in DOMAIN entries}, <)
    IN  [k \in DOMAIN places |-> entries[last(places[k])]]

ParseField(f, w, val) ==
    CASE f.t = "lit"  -> ParseOne(w, w # << >> /\ Head(w) = f.b)
      [] f.t = "num"  -> ParseOne(w, w # << >> /\ Head(w) \in f.d)
      [] f.t = "key"  -> ParseOne(w, TRUE)
      [] f.t = "blob" -> ParseBlob(w, f.d)
      [] f.t = "opt"  -> IF w = << >> THEN {}
                         ELSE IF Head(w) = 0 THEN {[v |-> << >>, rest |-> Tail(w)]}
                         ELSE IF Head(w) = 1 THEN ParseBlob(Tail(w), Nat \ {0}) ELSE {}
      [] f.t = "optkey" -> IF w = << >> THEN {}
                           ELSE IF Head(w) = 0 THEN {[v |-> << >>, rest |-> Tail(w)]}
                           ELSE IF Len(w) <= f.n THEN {}
                           ELSE {[v |-> SubSeq(w, 2, f.n + 1), rest |-> From(w, f.n + 2)]}
      [] f.t = "rest" -> {[v |-> w, rest |-> << >>]}
      [] f.t = "list" -> IF w # << >> /\ Head(w) <= f.max
                         THEN ParseN(f.fs, Tail(w), Head(w), << >>) ELSE {}
      [] f.t = "table" -> {[p EXCEPT !.v = Placed(@)] :
                             p \in ParseField(List(f.max, f.fs), w, val)}
      [] f.t = "when" -> IF val[f.of] \in f.in THEN ParseOne(w, TRUE)
                         ELSE {[v |-> 0, rest |-> w]}
      [] f.t = "zero" -> IF val[f.of] # 0 THEN ParseOne(w, TRUE)
                         ELSE {[p EXCEPT !.v = 0] : p \in ParseOne(w, w # << >> /\ Head(w) \in f.d)}

Parse(fs, w, val) ==
    IF fs = << >> THEN {[v |-> val, rest |-> w]}
    ELSE UNION {Parse(Tail(fs), p.rest, Append(val, p.v)) : p \in ParseField(Head(fs), w, val)}

ParseN(fs, w, n, vals) ==
    IF n = 0 THEN {[v |-> vals, rest |-> w]}
    ELSE UNION {ParseN(fs, p.rest, n - 1, Append(vals, p.v)) : p \in Parse(fs, w, << >>)}

(* Trailing units are refused. *)
Dec(fs, w) == {p.v : p \in {q \in Parse(fs, w, << >>) : q.rest = << >>}}

-----------------------------------------------------------------------------
(* The values an encoder takes, over small sets. *)
RECURSIVE Values(_, _)

Ones(n) == [i \in 1 .. n |-> 1]

ValuesOf(f, val) ==
    CASE f.t = "lit"  -> {f.b}
      [] f.t = "num"  -> f.e
      [] f.t = "key"  -> {1}
      [] f.t = "blob" -> {Ones(n) : n \in f.e}
      [] f.t = "opt"  -> {<< >>, <<1>>}
      [] f.t = "optkey" -> {<< >>, Ones(f.n)}
      [] f.t = "rest" -> {<< >>, <<1>>}
      [] f.t \in {"list", "table"} -> BoundedSeq(Values(f.fs, << >>), f.max)
      [] f.t = "when" -> {IF val[f.of] \in f.in THEN 1 ELSE 0}
      [] f.t = "zero" -> {IF val[f.of] = 0 THEN 0 ELSE 1}

Values(fs, val) ==
    IF Len(val) = Len(fs) THEN {val}
    ELSE UNION {Values(fs, Append(val, v)) : v \in ValuesOf(fs[Len(val) + 1], val)}
=============================================================================
