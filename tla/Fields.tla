------------------------------- MODULE Fields -------------------------------
(* The fields a payload is made of, and what Writer and Reader do with one *)
(* that contains no other (src/src/protocol.cpp).                          *)
(*                                                                         *)
(* Every encode_* and decode_* function of the code is a straight-line     *)
(* list of writer or reader calls.  A layout is that list: a sequence of   *)
(* fields, each with its width in bytes and the bound the call enforces.   *)
(* A payload is the sequence of the written fields, each with its width:   *)
(* lengths are exact, the bytes of one field are kept together.            *)
EXTENDS Integers, Sequences, FiniteSets, TLC

Unbounded == 10 ^ 9

(***************************************************************************)
(* Fields.                                                                 *)
(***************************************************************************)
Field(n, t, w, max, sub) ==
    [name |-> n, type |-> t, width |-> w, max |-> max, sub |-> sub]

U8(n)         == Field(n, "number", 1, Unbounded, <<>>)
Upto(n, max)  == Field(n, "number", 1, max, <<>>)
Bool(n)       == Field(n, "number", 1, 1, <<>>)
U32(n)        == Field(n, "number", 4, Unbounded, <<>>)
U32Upto(n, m) == Field(n, "number", 4, m, <<>>)
U64(n)        == Field(n, "number", 8, Unbounded, <<>>)
Id(n)         == Field(n, "number", 16, Unbounded, <<>>)
Ids(n)        == [i \in DOMAIN n |-> Id(n[i])]
U64s(n)       == [i \in DOMAIN n |-> U64(n[i])]
U32s(n)       == [i \in DOMAIN n |-> U32(n[i])]
Str(n, max)   == Field(n, "string", 1, max, <<>>)
Text(n, max)  == Field(n, "text", 1, max, <<>>)     \* truncated when written
List(n, max, sub)      == Field(n, "list", 4, max, sub)
SomeOf(n, max, sub)    == Field(n, "nonempty", 4, max, sub)
Map(n, max, sub)       == Field(n, "map", 4, max, sub)
Reasons(n, max, sub)   == Field(n, "reasons", 4, max, sub)
Array(n, count, sub)   == Field(n, "array", 0, count, sub)
Part(n, sub)           == Field(n, "part", 0, 1, sub)
When(flag, n, sub)     == Field(n, "when", 1, 1, <<flag, sub>>)
OneOf(n, arms)         == Field(n, "oneof", 1, Len(arms), arms)

Lists == {"list", "nonempty", "map", "reasons"}

(***************************************************************************)
(* Writer.  It yields the fields written, or Refused.                      *)
(***************************************************************************)
Number(w, v) == <<[w |-> w, v |-> v]>>
Refused == Number(-1, 0)
IsRefused(written) == written # <<>> /\ written[1].w = -1
Shorter(s, max) == IF s.len > max THEN [s EXCEPT !.len = max] ELSE s
TextBytes(s) == Number(4, s.len) \o <<[w |-> s.len, v |-> s.text]>>

Joined(parts) ==
    IF \E i \in DOMAIN parts : IsRefused(parts[i])
    THEN Refused
    ELSE LET upto[i \in 0 .. Len(parts)] ==
               IF i = 0 THEN <<>> ELSE upto[i - 1] \o parts[i]
         IN  upto[Len(parts)]

Bytes(written) ==
    LET upto[i \in 0 .. Len(written)] ==
          IF i = 0 THEN 0 ELSE upto[i - 1] + written[i].w
    IN  upto[Len(written)]

(***************************************************************************)
(* Reader.  A reader stands before field at of the payload p, with off     *)
(* bytes behind it; p.size may be less than what p.fields hold.            *)
(***************************************************************************)
Failed(r) == [r EXCEPT !.ok = FALSE]
\* Reader::take and the read that follows it.  Layouts that disagree on a width
\* would read bytes of two fields as one; the code would go on with a wrong
\* value, here the read fails, and either way the message does not arrive.
Take(p, r, w) ==
    IF ~r.ok \/ r.off + w > p.size \/ r.at > Len(p.fields)
         \/ p.fields[r.at].w # w
    THEN Failed(r)
    ELSE [r EXCEPT !.at = @ + 1, !.off = @ + w, !.last = p.fields[r.at].v]

Bind(r, n, x) == [r EXCEPT !.val = @ @@ (n :> x)]

\* Metadata::set: a key that is there already gets the new value.
Put(entries, e) ==
    IF \E i \in DOMAIN entries : entries[i].key = e.key
    THEN [i \in DOMAIN entries |->
            IF entries[i].key = e.key THEN e ELSE entries[i]]
    ELSE Append(entries, e)
AsMap(items) ==
    LET upto[i \in 0 .. Len(items)] ==
          IF i = 0 THEN <<>> ELSE Put(upto[i - 1], items[i])
    IN  upto[Len(items)]

\* ReasonChain::add: an empty code is replaced.
Unspecified == [len |-> 2, text |-> "unspecified"]
AsReasons(items) ==
    [i \in DOMAIN items |->
        IF items[i].code.len = 0 THEN [items[i] EXCEPT !.code = Unspecified]
        ELSE items[i]]

ReadString(f, p, r) ==
    LET length == Take(p, r, 4)
        text   == Take(p, length, length.last)
    IN  IF length.ok /\ length.last <= f.max
        THEN Bind(text, f.name, [len |-> length.last, text |-> text.last])
        ELSE Failed(r)

Start == [ok |-> TRUE, at |-> 1, off |-> 0, last |-> 0, val |-> <<>>]
=============================================================================
