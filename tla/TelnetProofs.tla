---------------------------- MODULE TelnetProofs ----------------------------
(***************************************************************************)
(* A telnet connection of MCChannels, for any number of requests and       *)
(* writes: the two ends come to agree on the option, and the data arrives  *)
(* as it was written where the mode is in step with what is asked.         *)
(*                                                                         *)
(* The bytes on a wire are described by a sequence of tags, the state in   *)
(* which OnRead is to meet each of them (Tagged).  Of the commands among   *)
(* the tags all that matters to an end is which of two is there, which is  *)
(* the last, and whether one of the two comes before (Has, Closes,         *)
(* Follows).  The states of the two ends agree with the commands that are  *)
(* still on the wires (Agree, AgreeInv), in which an end that has asked is *)
(* Pending; when the wires are empty the ends themselves agree.            *)
(*                                                                         *)
(* For the data (DataInv) every byte on the way to the reader has the      *)
(* point at which it will be read: the state and the mode of the reader    *)
(* there and how much it will have delivered.  The point after the last    *)
(* byte is that of the writer (Traced, OnItsWay).                          *)
(***************************************************************************)
EXTENDS MCChannels, TLAPS

-----------------------------------------------------------------------------
(* The commands in a sequence of tags.                                     *)

Has(t, c)         == \E i \in DOMAIN t : t[i] = c
Closes(t, c, d)   == \E i \in DOMAIN t : t[i] = c /\ \A j \in DOMAIN t : j > i => t[j] # d
Follows(t, c, d)  == \E i, j \in DOMAIN t : j < i /\ t[i] = c /\ t[j] \in {c, d}

\* What is known of the commands c and d when u is t and a tag z more.
Added(t, u, z, c, d) ==
  /\ Has(u, c) <=> (Has(t, c) \/ z = c)
  /\ Closes(u, c, d) <=> (z = c \/ (z # d /\ Closes(t, c, d)))
  /\ Follows(u, c, d) <=> (Follows(t, c, d) \/ (z = c /\ (Has(t, c) \/ Has(t, d))))

\* And when t is u with a tag z before it.
Taken(t, u, z, c, d) ==
  /\ Has(t, c) <=> (Has(u, c) \/ z = c)
  /\ Closes(t, c, d) <=> (Closes(u, c, d) \/ (z = c /\ ~Has(u, d) /\ ~Has(u, c)))
  /\ Follows(t, c, d) <=> (Follows(u, c, d) \/ (z \in {c, d} /\ Has(u, c)))

LEMMA AppendAdds ==
  ASSUME NEW All, NEW t \in Seq(All), NEW z \in All, NEW c, NEW d, c # d
  PROVE  Added(t, Append(t, z), z, c, d)
<1> DEFINE u == Append(t, z)
<1>1. /\ DOMAIN t = 1 .. Len(t) /\ DOMAIN u = 1 .. Len(t) + 1 /\ Len(t) \in Nat
      /\ u[Len(t) + 1] = z /\ \A i \in 1 .. Len(t) : u[i] = t[i]
  OBVIOUS
<1> HIDE DEF u
<1>2. Has(u, c) <=> (Has(t, c) \/ z = c)
  BY <1>1 DEF Has
<1>3. Closes(u, c, d) <=> (z = c \/ (z # d /\ Closes(t, c, d)))
  BY <1>1 DEF Closes
<1>4. Follows(u, c, d) <=> (Follows(t, c, d) \/ (z = c /\ (Has(t, c) \/ Has(t, d))))
  BY <1>1 DEF Follows, Has
<1>5. QED
  BY <1>2, <1>3, <1>4 DEF Added, u

LEMMA TailTakes ==
  ASSUME NEW All, NEW t \in Seq(All), t # << >>, NEW c, NEW d, c # d
  PROVE  Taken(t, Tail(t), t[1], c, d)
<1> DEFINE u == Tail(t)
<1>1. /\ DOMAIN t = 1 .. Len(t) /\ DOMAIN u = 1 .. Len(t) - 1 /\ Len(t) \in Nat /\ Len(t) > 0
      /\ \A i \in 1 .. Len(t) - 1 : u[i] = t[i + 1]
  OBVIOUS
<1> HIDE DEF u
<1>2. 1 \in DOMAIN t /\ \A i \in DOMAIN t : i \in Nat /\ (i = 1 \/ i > 1)
  BY <1>1
<1>3. \A i \in DOMAIN u : i \in Nat /\ i + 1 > 1 /\ i + 1 \in DOMAIN t /\ t[i + 1] = u[i]
  BY <1>1
<1>4. \A i \in DOMAIN t : i > 1 => i - 1 \in DOMAIN u /\ u[i - 1] = t[i]
  BY <1>1
<1>5. Has(t, c) <=> (Has(u, c) \/ t[1] = c)
  <2>1. Has(u, c) \/ t[1] = c => Has(t, c)
    BY <1>2, <1>3 DEF Has
  <2>2. ASSUME Has(t, c), t[1] # c PROVE Has(u, c)
    BY <1>2, <1>4, <2>2 DEF Has
  <2>3. QED
    BY <2>1, <2>2
<1>6. Closes(t, c, d) <=> (Closes(u, c, d) \/ (t[1] = c /\ ~Has(u, d) /\ ~Has(u, c)))
  <2>1. ASSUME Closes(u, c, d) PROVE Closes(t, c, d)
    <3>1. PICK i \in DOMAIN u : u[i] = c /\ \A j \in DOMAIN u : j > i => u[j] # d
      BY <2>1 DEF Closes
    <3>2. i + 1 \in DOMAIN t /\ t[i + 1] = c
      BY <1>3, <3>1
    <3>3. ASSUME NEW j \in DOMAIN t, j > i + 1 PROVE t[j] # d
      <4>1. i \in Nat /\ j \in Nat
        BY <1>2, <1>3, <3>1
      <4>2. j > 1 /\ j - 1 > i
        BY <1>3, <3>1, <3>3, <4>1
      <4>3. j - 1 \in DOMAIN u /\ u[j - 1] = t[j]
        BY <1>4, <4>2
      <4>4. QED
        BY <3>1, <4>2, <4>3
    <3>4. QED
      BY <3>2, <3>3 DEF Closes
  <2>2. ASSUME t[1] = c, ~Has(u, d) PROVE Closes(t, c, d)
    <3>1. ASSUME NEW j \in DOMAIN t, j > 1 PROVE t[j] # d
      BY <1>4, <2>2, <3>1 DEF Has
    <3>2. QED
      BY <1>2, <2>2, <3>1 DEF Closes
  <2>3. ASSUME Closes(t, c, d), ~Closes(u, c, d) PROVE t[1] = c /\ ~Has(u, d) /\ ~Has(u, c)
    <3>1. PICK i \in DOMAIN t : t[i] = c /\ \A j \in DOMAIN t : j > i => t[j] # d
      BY <2>3 DEF Closes
    <3>2. ASSUME NEW k \in DOMAIN u, k >= i PROVE u[k] # d
      BY <1>2, <1>3, <3>1, <3>2
    <3>3. ASSUME i > 1 PROVE FALSE
      <4>1. i - 1 \in DOMAIN u /\ u[i - 1] = c
        BY <1>4, <3>1, <3>3
      <4>2. \A j \in DOMAIN u : j > i - 1 => u[j] # d
        BY <1>2, <1>3, <3>2
      <4>3. QED
        BY <2>3, <4>1, <4>2 DEF Closes
    <3>4. i = 1 /\ \A k \in DOMAIN u : u[k] # d
      BY <1>1, <1>2, <3>2, <3>3
    <3>5. \A k \in DOMAIN u : u[k] # c
      BY <2>3, <3>4 DEF Closes
    <3>6. QED
      BY <3>1, <3>4, <3>5 DEF Has
  <2>4. QED
    BY <2>1, <2>2, <2>3
<1>7. Follows(t, c, d) <=> (Follows(u, c, d) \/ (t[1] \in {c, d} /\ Has(u, c)))
  <2>1. ASSUME Follows(u, c, d) PROVE Follows(t, c, d)
    <3>1. PICK i \in DOMAIN u, j \in DOMAIN u : j < i /\ u[i] = c /\ u[j] \in {c, d}
      BY <2>1 DEF Follows
    <3>2. i + 1 \in DOMAIN t /\ j + 1 \in DOMAIN t /\ j + 1 < i + 1
      BY <1>3, <3>1
    <3>3. t[i + 1] = c /\ t[j + 1] \in {c, d}
      BY <1>3, <3>1
    <3>4. QED
      BY <3>2, <3>3 DEF Follows
  <2>2. ASSUME t[1] \in {c, d}, Has(u, c) PROVE Follows(t, c, d)
    BY <1>2, <1>3, <2>2 DEF Follows, Has
  <2>3. ASSUME Follows(t, c, d), ~Follows(u, c, d) PROVE t[1] \in {c, d} /\ Has(u, c)
    <3>1. PICK i \in DOMAIN t, j \in DOMAIN t : j < i /\ t[i] = c /\ t[j] \in {c, d}
      BY <2>3 DEF Follows
    <3>2. i > 1 /\ i - 1 \in DOMAIN u /\ u[i - 1] = c
      BY <1>2, <1>4, <3>1
    <3>3. ASSUME j > 1 PROVE FALSE
      <4>1. j - 1 \in DOMAIN u /\ u[j - 1] \in {c, d} /\ j - 1 < i - 1
        BY <1>2, <1>4, <3>1, <3>3
      <4>2. QED
        BY <2>3, <3>2, <4>1 DEF Follows
    <3>4. QED
      BY <1>2, <3>1, <3>2, <3>3 DEF Has
  <2>4. QED
    BY <2>1, <2>2, <2>3
<1>8. QED
  BY <1>5, <1>6, <1>7 DEF Taken, u

\* The last of the commands is one of them.
Ended(t, c, d) == Has(t, c) \/ Has(t, d) => Closes(t, c, d) \/ Closes(t, d, c)

\* How the commands of a sequence hang together.
Sensible(t, c, d) ==
  /\ Ended(t, c, d)
  /\ Closes(t, c, d) => Has(t, c)
  /\ Closes(t, d, c) => Has(t, d)
  /\ ~(Closes(t, c, d) /\ Closes(t, d, c))
  /\ Follows(t, c, d) => Has(t, c)
  /\ Closes(t, c, d) /\ Has(t, d) => Follows(t, c, d)

LEMMA EndedIsSensible ==
  ASSUME NEW All, NEW t \in Seq(All), NEW c, NEW d, c # d, Ended(t, c, d)
  PROVE  Sensible(t, c, d)
<1>1. \A i, j \in DOMAIN t : i < j \/ i = j \/ i > j
  OBVIOUS
<1>2. Closes(t, c, d) => Has(t, c)
  BY DEF Closes, Has
<1>3. Closes(t, d, c) => Has(t, d)
  BY DEF Closes, Has
<1>4. ~(Closes(t, c, d) /\ Closes(t, d, c))
  BY <1>1 DEF Closes
<1>5. Follows(t, c, d) => Has(t, c)
  BY DEF Follows, Has
<1>6. Closes(t, c, d) /\ Has(t, d) => Follows(t, c, d)
  BY <1>1 DEF Closes, Has, Follows
<1>7. QED
  BY <1>2, <1>3, <1>4, <1>5, <1>6 DEF Sensible

-----------------------------------------------------------------------------
(* One side of the option: an end in state a, to which the commands c and  *)
(* d (enable and disable) of u are on their way, and the other in state b, *)
(* to which the commands e and f of v are.                                 *)

Disabling == {"WantNo", "WantNoQueued"}
Enabling  == {"WantYes", "WantYesQueued"}

Pending(a, b, u, c, d, v, e, f) ==
  /\ a = "IsNo" /\ b \in Disabling \cup {"IsYes"} => Has(u, c) \/ Has(v, f)
  /\ a = "IsNo" /\ b \in Enabling => Has(u, c) \/ Has(u, d) \/ (Has(v, e) /\ Has(v, f))
  /\ a = "IsYes" /\ b \in Disabling
       => Has(u, c) \/ Has(u, d) \/ (Has(v, f) /\ Closes(v, e, f))
  /\ a \in Disabling \cup {"IsYes"} /\ b \in Enabling => Has(u, d) \/ Has(v, e)
  /\ a \in Disabling /\ b \in Disabling
       => \/ (Has(u, c) \/ Has(u, d)) /\ (Has(v, e) \/ Has(v, f))
          \/ Follows(u, c, d) \/ Follows(v, e, f)
  /\ a \in Enabling /\ b \in Enabling
       => \/ (Has(u, c) \/ Has(u, d)) /\ (Has(v, e) \/ Has(v, f))
          \/ Has(u, d) \/ Has(v, f)

Agree(a, b, u, c, d, v, e, f) ==
  /\ Ended(u, c, d) /\ Ended(v, e, f)
  /\ a \in Disabling => ~Closes(v, e, f)
  /\ a \in Enabling  => ~Closes(v, f, e)
  /\ b \in Disabling => ~Closes(u, c, d)
  /\ b \in Enabling  => ~Closes(u, d, c)
  /\ Pending(a, b, u, c, d, v, e, f)
  /\ Pending(b, a, v, e, f, u, c, d)

LEMMA AgreeSwapped ==
  ASSUME NEW a, NEW b, NEW u, NEW c, NEW d, NEW v, NEW e, NEW f, Agree(a, b, u, c, d, v, e, f)
  PROVE  Agree(b, a, v, e, f, u, c, d)
BY DEF Agree

\* w is v and what an answer sends.
Says(v, w, commands, e, f) ==
  IF commands = << >> THEN w = v
  ELSE Added(v, w, commands[1], e, f) /\ Added(v, w, commands[1], f, e)

\* The end in state a asks.
LEMMA AskKeepsAgree ==
  ASSUME NEW All, NEW a \in T!Option, NEW b \in T!Option, NEW u \in Seq(All), NEW v \in Seq(All),
         NEW w, NEW c, NEW d, c # d, NEW e, NEW f, e # f,
         Agree(a, b, u, c, d, v, e, f),
         NEW answer \in {T!AskYes(a, e), T!AskNo(a, f)}, Says(v, w, answer[2], e, f)
  PROVE  answer[1] \in T!Option /\ Agree(answer[1], b, u, c, d, w, e, f)
<1>1. Sensible(u, c, d) /\ Sensible(v, e, f) /\ Sensible(u, d, c) /\ Sensible(v, f, e)
  BY EndedIsSensible DEF Agree, Ended
<1>2. CASE answer = T!AskYes(a, e)
  <2>1. CASE a = "IsNo"
    <3>1. answer[1] = "WantYes" /\ Added(v, w, e, e, f) /\ Added(v, w, e, f, e)
      BY <1>2, <2>1 DEF T!AskYes, Says
    <3>2. QED
      BY <1>1, <2>1, <3>1
         DEF Agree, Pending, Disabling, Enabling, Sensible, Ended, Added, T!Option
  <2>2. CASE a # "IsNo"
    <3>1. w = v /\ answer[1] = CASE a = "WantNo" -> "WantNoQueued" [] a = "WantYesQueued" -> "WantYes"
                                 [] a = "IsYes" -> "IsYes" [] OTHER -> "IsNo"
      BY <1>2, <2>2 DEF T!AskYes, Says, T!Option
    <3>2. QED
      BY <1>1, <2>2, <3>1
         DEF Agree, Pending, Disabling, Enabling, Sensible, Ended, Added, T!Option
  <2>3. QED
    BY <2>1, <2>2
<1>3. CASE answer = T!AskNo(a, f)
  <2>1. CASE a = "IsYes"
    <3>1. answer[1] = "WantNo" /\ Added(v, w, f, e, f) /\ Added(v, w, f, f, e)
      BY <1>3, <2>1 DEF T!AskNo, Says
    <3>2. QED
      BY <1>1, <2>1, <3>1
         DEF Agree, Pending, Disabling, Enabling, Sensible, Ended, Added, T!Option
  <2>2. CASE a # "IsYes"
    <3>1. w = v /\ answer[1] = CASE a = "WantYes" -> "WantYesQueued" [] a = "WantNoQueued" -> "WantNo"
                                 [] a = "WantYesQueued" -> "IsYes" [] OTHER -> "IsNo"
      BY <1>3, <2>2 DEF T!AskNo, Says, T!Option
    <3>2. QED
      BY <1>1, <2>2, <3>1
         DEF Agree, Pending, Disabling, Enabling, Sensible, Ended, Added, T!Option
  <2>3. QED
    BY <2>1, <2>2
<1>4. QED
  BY <1>2, <1>3

\* A willing end in state a reads the command that enables, before the tags r.
LEMMA YesKeepsAgree ==
  ASSUME NEW All, NEW a \in T!Option, NEW b \in T!Option, NEW u \in Seq(All), NEW v \in Seq(All),
         NEW r \in Seq(All), NEW w, NEW c, NEW d, c # d, NEW e, NEW f, e # f,
         Agree(a, b, u, c, d, v, e, f), Taken(u, r, c, c, d), Taken(u, r, c, d, c),
         NEW answer, answer = T!OnYes(a, TRUE, e, f), Says(v, w, answer[2], e, f)
  PROVE  answer[1] \in T!Option /\ Agree(answer[1], b, r, c, d, w, e, f)
<1>1. Sensible(u, c, d) /\ Sensible(v, e, f) /\ Sensible(u, d, c) /\ Sensible(v, f, e)
  BY EndedIsSensible DEF Agree, Ended
<1>2. Ended(r, c, d)
  BY <1>1 DEF Sensible, Ended, Taken
<1>3. Sensible(r, c, d) /\ Sensible(r, d, c)
  BY <1>2, EndedIsSensible DEF Ended
<1> USE DEF Agree, Pending, Disabling, Enabling, Sensible, Ended, Added, Taken, T!Option
<1>4. CASE a = "IsNo"
  <2>1. answer[1] = "IsYes" /\ Added(v, w, e, e, f) /\ Added(v, w, e, f, e)
    BY <1>4 DEF T!OnYes, Says
  <2>2. QED
    BY <1>1, <1>3, <1>4, <2>1
<1>5. CASE a = "WantYesQueued"
  <2>1. answer[1] = "WantNo" /\ Added(v, w, f, e, f) /\ Added(v, w, f, f, e)
    BY <1>5 DEF T!OnYes, Says
  <2>2. QED
    BY <1>1, <1>3, <1>5, <2>1
<1>6. CASE a \notin {"IsNo", "WantYesQueued"}
  <2>1. w = v /\ answer[1] = IF a = "WantNo" THEN "IsNo" ELSE "IsYes"
    BY <1>6 DEF T!OnYes, Says
  <2>2. QED
    BY <1>1, <1>3, <1>6, <2>1
<1>7. QED
  BY <1>4, <1>5, <1>6

\* And the command that disables.
LEMMA NoKeepsAgree ==
  ASSUME NEW All, NEW a \in T!Option, NEW b \in T!Option, NEW u \in Seq(All), NEW v \in Seq(All),
         NEW r \in Seq(All), NEW w, NEW c, NEW d, c # d, NEW e, NEW f, e # f,
         Agree(a, b, u, c, d, v, e, f), Taken(u, r, d, c, d), Taken(u, r, d, d, c),
         a = "WantNoQueued" => e = "DO",
         NEW answer, answer = T!OnNo(a, f), Says(v, w, answer[2], e, f)
  PROVE  answer[1] \in T!Option /\ Agree(answer[1], b, r, c, d, w, e, f)
<1>1. Sensible(u, c, d) /\ Sensible(v, e, f) /\ Sensible(u, d, c) /\ Sensible(v, f, e)
  BY EndedIsSensible DEF Agree, Ended
<1>2. Ended(r, c, d)
  BY <1>1 DEF Sensible, Ended, Taken
<1>3. Sensible(r, c, d) /\ Sensible(r, d, c)
  BY <1>2, EndedIsSensible DEF Ended
<1> USE DEF Agree, Pending, Disabling, Enabling, Sensible, Ended, Added, Taken, T!Option
<1>4. CASE a = "IsYes"
  <2>1. answer[1] = "IsNo" /\ Added(v, w, f, e, f) /\ Added(v, w, f, f, e)
    BY <1>4 DEF T!OnNo, Says
  <2>2. QED
    BY <1>1, <1>3, <1>4, <2>1
<1>5. CASE a = "WantNoQueued"
  <2>1. answer[1] = "WantYes" /\ Added(v, w, e, e, f) /\ Added(v, w, e, f, e)
    BY <1>5 DEF T!OnNo, Says
  <2>2. QED
    BY <1>1, <1>3, <1>5, <2>1
<1>6. CASE a \notin {"IsYes", "WantNoQueued"}
  <2>1. w = v /\ answer[1] = "IsNo"
    BY <1>6 DEF T!OnNo, Says
  <2>2. QED
    BY <1>1, <1>3, <1>6, <2>1
<1>7. QED
  BY <1>4, <1>5, <1>6

-----------------------------------------------------------------------------
(* The tags of the bytes on a wire.                                        *)

Tags == {"Normal", "IAC"} \cup T!Requests

LegalAt(tag) == CASE tag = "Normal" -> T!Data
                  [] tag = "IAC"    -> T!Requests \cup {"IAC"}
                  [] OTHER          -> {"NUL"}

NextTag(tag, b) == IF tag = "Normal" /\ b = "IAC" THEN "IAC"
                   ELSE IF tag = "IAC" /\ b \in T!Requests THEN b ELSE "Normal"

Bytes == T!Data \cup T!Requests

\* t has the tag of every byte, and one more for the byte that will be sent next.
Tagged(bytes, t, first, last) ==
  /\ bytes \in Seq(Bytes) /\ t \in Seq(Tags) /\ Len(t) = Len(bytes) + 1
  /\ t[1] = first /\ t[Len(t)] = last
  /\ \A i \in 1 .. Len(bytes) : bytes[i] \in LegalAt(t[i]) /\ t[i + 1] = NextTag(t[i], bytes[i])

LEMMA NextTagIsTag ==
  ASSUME NEW tag \in Tags, NEW b PROVE NextTag(tag, b) \in Tags /\ LegalAt(tag) \subseteq Bytes
BY DEF Tags, NextTag, LegalAt, Bytes, T!Requests, T!Data

LEMMA TaggedByte ==
  ASSUME NEW q, NEW t, NEW first, NEW last, Tagged(q, t, first, last), NEW b \in LegalAt(last)
  PROVE  Tagged(Append(q, b), Append(t, NextTag(last, b)), first, NextTag(last, b))
<1> DEFINE z == NextTag(last, b)
           r == Append(q, b)
           u == Append(t, z)
<1>1. q \in Seq(Bytes) /\ t \in Seq(Tags) /\ Len(t) = Len(q) + 1 /\ last \in Tags
  BY DEF Tagged
<1>2. z \in Tags /\ b \in Bytes
  BY <1>1, NextTagIsTag
<1> HIDE DEF z
<1>3. /\ r \in Seq(Bytes) /\ u \in Seq(Tags) /\ Len(r) = Len(q) + 1 /\ Len(u) = Len(t) + 1
      /\ \A i \in 1 .. Len(q) : r[i] = q[i] /\ u[i] = t[i]
      /\ r[Len(q) + 1] = b /\ u[Len(t)] = t[Len(t)] /\ u[Len(t) + 1] = z
  BY <1>1, <1>2
<1>4. \A i \in 1 .. Len(q) : u[i + 1] = t[i + 1]
  BY <1>1, <1>2
<1>5. u[1] = first /\ u[Len(u)] = z
  BY <1>1, <1>3, <1>2 DEF Tagged
<1>6. \A i \in 1 .. Len(r) : r[i] \in LegalAt(u[i]) /\ u[i + 1] = NextTag(u[i], r[i])
  <2>1. \A i \in 1 .. Len(q) : r[i] \in LegalAt(u[i]) /\ u[i + 1] = NextTag(u[i], r[i])
    BY <1>3, <1>4 DEF Tagged
  <2>2. r[Len(r)] \in LegalAt(u[Len(r)]) /\ u[Len(r) + 1] = NextTag(u[Len(r)], r[Len(r)])
    BY <1>1, <1>3 DEF Tagged, z
  <2>3. QED
    BY <1>1, <1>3, <2>1, <2>2
<1>7. QED
  BY <1>1, <1>3, <1>5, <1>6 DEF Tagged, z

LEMMA TaggedTail ==
  ASSUME NEW q, NEW t, NEW first, NEW last, Tagged(q, t, first, last), q # << >>
  PROVE  /\ Head(q) \in LegalAt(first)
         /\ Tagged(Tail(q), Tail(t), NextTag(first, Head(q)), last)
<1> DEFINE r == Tail(q)
           u == Tail(t)
<1>1. q \in Seq(Bytes) /\ t \in Seq(Tags) /\ Len(t) = Len(q) + 1 /\ Len(q) > 0
  BY DEF Tagged
<1>2. /\ r \in Seq(Bytes) /\ u \in Seq(Tags) /\ Len(r) = Len(q) - 1 /\ Len(u) = Len(t) - 1
      /\ \A i \in 1 .. Len(r) : r[i] = q[i + 1]
      /\ \A i \in 1 .. Len(u) : u[i] = t[i + 1]
      /\ Head(q) = q[1]
  BY <1>1
<1> HIDE DEF r, u
<1>3. q[1] \in LegalAt(first) /\ u[1] = NextTag(first, q[1]) /\ u[Len(u)] = last
  BY <1>1, <1>2 DEF Tagged
<1>4. \A i \in 1 .. Len(r) : r[i] \in LegalAt(u[i]) /\ u[i + 1] = NextTag(u[i], r[i])
  <2> TAKE i \in 1 .. Len(r)
  <2>1. i + 1 \in 1 .. Len(q) /\ i \in 1 .. Len(u) /\ i + 1 \in 1 .. Len(u)
    BY <1>1, <1>2
  <2>2. r[i] = q[i + 1] /\ u[i] = t[i + 1] /\ u[i + 1] = t[i + 1 + 1]
    BY <1>2, <2>1
  <2>3. QED
    BY <2>1, <2>2 DEF Tagged
<1>5. QED
  BY <1>1, <1>2, <1>3, <1>4 DEF Tagged, r, u

\* A command of three bytes.
CommandTags(t, c) == Append(Append(Append(t, "IAC"), c), "Normal")

LEMMA TaggedCommand ==
  ASSUME NEW q, NEW t, NEW first, Tagged(q, t, first, "Normal"), NEW c \in T!Requests
  PROVE  Tagged(q \o <<"IAC", c, "NUL">>, CommandTags(t, c), first, "Normal")
<1>1. Tagged(Append(q, "IAC"), Append(t, "IAC"), first, "IAC")
  <2>1. "IAC" \in LegalAt("Normal") /\ NextTag("Normal", "IAC") = "IAC"
    BY DEF LegalAt, NextTag, T!Data
  <2>2. QED
    BY <2>1, TaggedByte
<1>2. Tagged(Append(Append(q, "IAC"), c), Append(Append(t, "IAC"), c), first, c)
  <2>1. c \in LegalAt("IAC") /\ NextTag("IAC", c) = c
    BY DEF LegalAt, NextTag
  <2>2. QED
    BY <1>1, <2>1, TaggedByte
<1>3. Tagged(Append(Append(Append(q, "IAC"), c), "NUL"), CommandTags(t, c), first, "Normal")
  <2>1. "NUL" \in LegalAt(c) /\ NextTag(c, "NUL") = "Normal"
    BY DEF LegalAt, NextTag, T!Requests
  <2>2. QED
    BY <1>2, <2>1, TaggedByte DEF CommandTags
<1>4. q \o <<"IAC", c, "NUL">> = Append(Append(Append(q, "IAC"), c), "NUL")
  <2>1. q \in Seq(Bytes) /\ "IAC" \in Bytes /\ c \in Bytes /\ "NUL" \in Bytes
    BY DEF Tagged, Bytes, T!Data
  <2>2. QED
    BY <2>1
<1>5. QED
  BY <1>3, <1>4

LEMMA CommandAdds ==
  ASSUME NEW t \in Seq(Tags), NEW z \in T!Requests, NEW c \in T!Requests, NEW d \in T!Requests,
         c # d
  PROVE  CommandTags(t, z) \in Seq(Tags) /\ Added(t, CommandTags(t, z), z, c, d)
<1> DEFINE u == Append(t, "IAC")
           v == Append(u, z)
           w == Append(v, "Normal")
<1>1. "IAC" \in Tags /\ "Normal" \in Tags /\ z \in Tags
  BY DEF Tags
<1>2. u \in Seq(Tags) /\ Added(t, u, "IAC", c, d)
  BY <1>1, AppendAdds
<1> HIDE DEF u
<1>3. v \in Seq(Tags) /\ Added(u, v, z, c, d)
  BY <1>1, <1>2, AppendAdds
<1> HIDE DEF v
<1>4. w \in Seq(Tags) /\ Added(v, w, "Normal", c, d)
  BY <1>1, <1>3, AppendAdds
<1> HIDE DEF w
<1>5. Has(t, d) <=> Has(u, d)
  <2>1. Added(t, u, "IAC", d, c)
    BY <1>1, AppendAdds DEF u
  <2>2. QED
    BY <2>1 DEF Added, T!Requests
<1>6. Added(t, w, z, c, d)
  BY <1>2, <1>3, <1>4, <1>5 DEF Added, T!Requests
<1>7. QED
  BY <1>4, <1>6 DEF CommandTags, u, v, w

-----------------------------------------------------------------------------
(* Both sides of the option, from an end: what it has for itself and for   *)
(* its peer (o, t), what its peer has (p, r), the tags of the bytes on     *)
(* their way to it (u) and from it (v).                                    *)

BothAgree(o, t, p, r, u, v) == /\ Agree(o, r, u, "DO", "DONT", v, "WILL", "WONT")
                               /\ Agree(t, p, u, "WILL", "WONT", v, "DO", "DONT")

LEMMA BothSwapped ==
  ASSUME NEW o, NEW t, NEW p, NEW r, NEW u, NEW v, BothAgree(o, t, p, r, u, v)
  PROVE  BothAgree(p, r, o, t, v, u)
BY AgreeSwapped DEF BothAgree

\* Two sequences with the same commands.
Alike(t, u) ==
  \A c, d \in T!Requests : c # d => /\ Has(t, c) <=> Has(u, c)
                                    /\ Closes(t, c, d) <=> Closes(u, c, d)
                                    /\ Follows(t, c, d) <=> Follows(u, c, d)

LEMMA AgreeAlike ==
  ASSUME NEW a, NEW b, NEW u, NEW v, NEW w, NEW x, Alike(u, w), Alike(v, x),
         NEW c \in T!Requests, NEW d \in T!Requests, c # d,
         NEW e \in T!Requests, NEW f \in T!Requests, e # f,
         Agree(a, b, u, c, d, v, e, f)
  PROVE  Agree(a, b, w, c, d, x, e, f)
<1>1. /\ Has(u, c) <=> Has(w, c)
      /\ Has(u, d) <=> Has(w, d)
      /\ Closes(u, c, d) <=> Closes(w, c, d)
      /\ Closes(u, d, c) <=> Closes(w, d, c)
      /\ Follows(u, c, d) <=> Follows(w, c, d)
  BY DEF Alike
<1>2. /\ Has(v, e) <=> Has(x, e)
      /\ Has(v, f) <=> Has(x, f)
      /\ Closes(v, e, f) <=> Closes(x, e, f)
      /\ Closes(v, f, e) <=> Closes(x, f, e)
      /\ Follows(v, e, f) <=> Follows(x, e, f)
  BY DEF Alike
<1>3. QED
  BY <1>1, <1>2 DEF Agree, Pending, Ended

LEMMA BothAlike ==
  ASSUME NEW o, NEW t, NEW p, NEW r, NEW u, NEW v, NEW w, NEW x,
         Alike(u, w), Alike(v, x), BothAgree(o, t, p, r, u, v)
  PROVE  BothAgree(o, t, p, r, w, x)
BY AgreeAlike DEF BothAgree, T!Requests

LEMMA SameIsAlike == ASSUME NEW t PROVE Alike(t, t)
BY DEF Alike

\* Tags that are no commands change nothing.
LEMMA AppendAlike ==
  ASSUME NEW t \in Seq(Tags), NEW z \in {"Normal", "IAC"}
  PROVE  Alike(t, Append(t, z))
<1>1. SUFFICES ASSUME NEW c \in T!Requests, NEW d \in T!Requests, c # d
               PROVE  /\ Has(t, c) <=> Has(Append(t, z), c)
                      /\ Closes(t, c, d) <=> Closes(Append(t, z), c, d)
                      /\ Follows(t, c, d) <=> Follows(Append(t, z), c, d)
  BY DEF Alike
<1>2. Added(t, Append(t, z), z, c, d)
  BY <1>1, AppendAdds DEF Tags
<1>3. z # c /\ z # d
  BY DEF T!Requests
<1>4. QED
  BY <1>2, <1>3 DEF Added

LEMMA TailAlike ==
  ASSUME NEW t \in Seq(Tags), t # << >>, t[1] \in {"Normal", "IAC"}
  PROVE  Alike(t, Tail(t))
<1>1. SUFFICES ASSUME NEW c \in T!Requests, NEW d \in T!Requests, c # d
               PROVE  /\ Has(t, c) <=> Has(Tail(t), c)
                      /\ Closes(t, c, d) <=> Closes(Tail(t), c, d)
                      /\ Follows(t, c, d) <=> Follows(Tail(t), c, d)
  BY DEF Alike
<1>2. Taken(t, Tail(t), t[1], c, d)
  BY <1>1, TailTakes
<1>3. t[1] # c /\ t[1] # d
  BY DEF T!Requests
<1>4. QED
  BY <1>2, <1>3 DEF Taken

\* A command says nothing of the other pair of commands.
LEMMA OtherAdded ==
  ASSUME NEW a, NEW b, NEW u, NEW v, NEW w, NEW c, NEW d, NEW e, NEW f,
         NEW z, z \notin {e, f}, Added(v, w, z, e, f), Added(v, w, z, f, e),
         Agree(a, b, u, c, d, v, e, f)
  PROVE  Agree(a, b, u, c, d, w, e, f)
<1>1. /\ Has(v, e) <=> Has(w, e)
      /\ Has(v, f) <=> Has(w, f)
      /\ Closes(v, e, f) <=> Closes(w, e, f)
      /\ Closes(v, f, e) <=> Closes(w, f, e)
      /\ Follows(v, e, f) <=> Follows(w, e, f)
  BY DEF Added
<1>2. QED
  BY <1>1 DEF Agree, Pending, Ended

LEMMA OtherTaken ==
  ASSUME NEW a, NEW b, NEW u, NEW v, NEW w, NEW c, NEW d, NEW e, NEW f,
         NEW z, z \notin {c, d}, Taken(u, w, z, c, d), Taken(u, w, z, d, c),
         Agree(a, b, u, c, d, v, e, f)
  PROVE  Agree(a, b, w, c, d, v, e, f)
<1>1. /\ Has(u, c) <=> Has(w, c)
      /\ Has(u, d) <=> Has(w, d)
      /\ Closes(u, c, d) <=> Closes(w, c, d)
      /\ Closes(u, d, c) <=> Closes(w, d, c)
      /\ Follows(u, c, d) <=> Follows(w, c, d)
  BY DEF Taken
<1>2. QED
  BY <1>1 DEF Agree, Pending, Ended

\* The tags of what an answer sends.
AnswerTags(t, commands) == IF commands = << >> THEN t ELSE CommandTags(t, commands[1])

LEMMA AnswerSays ==
  ASSUME NEW t \in Seq(Tags), NEW commands, NEW c \in T!Requests, NEW d \in T!Requests, c # d,
         commands = << >> \/ commands[1] \in T!Requests
  PROVE  AnswerTags(t, commands) \in Seq(Tags) /\ Says(t, AnswerTags(t, commands), commands, c, d)
BY CommandAdds DEF AnswerTags, Says

\* The end asks.
AskAnswer(o, t, z) == CASE z = "WILL" -> T!AskYes(o, "WILL")
                        [] z = "WONT" -> T!AskNo(o, "WONT")
                        [] z = "DO"   -> T!AskYes(t, "DO")
                        [] z = "DONT" -> T!AskNo(t, "DONT")

LEMMA AskKeepsBoth ==
  ASSUME NEW o \in T!Option, NEW t \in T!Option, NEW p \in T!Option, NEW r \in T!Option,
         NEW u \in Seq(Tags), NEW v \in Seq(Tags), BothAgree(o, t, p, r, u, v),
         NEW z \in T!Requests, NEW answer, answer = AskAnswer(o, t, z),
         NEW n, n = AnswerTags(v, answer[2])
  PROVE  /\ answer[1] \in T!Option
         /\ answer[2] = << >> \/ answer[2] \in {<<"WILL">>, <<"WONT">>, <<"DO">>, <<"DONT">>}
         /\ IF z \in {"WILL", "WONT"} THEN BothAgree(answer[1], t, p, r, u, n)
                                      ELSE BothAgree(o, answer[1], p, r, u, n)
<1>1. CASE z \in {"WILL", "WONT"}
  <2>1. answer \in {T!AskYes(o, "WILL"), T!AskNo(o, "WONT")}
    BY <1>1 DEF AskAnswer
  <2>2. answer[2] \in {<< >>, <<"WILL">>, <<"WONT">>}
    BY <2>1 DEF T!AskYes, T!AskNo, T!Option
  <2>3. Says(v, n, answer[2], "WILL", "WONT")
    BY <2>2, AnswerSays DEF T!Requests
  <2>4. answer[1] \in T!Option /\ Agree(answer[1], r, u, "DO", "DONT", n, "WILL", "WONT")
    BY <2>1, <2>3, AskKeepsAgree DEF BothAgree
  <2>5. v = n \/ \E h \in {"WILL", "WONT"} :
                    Added(v, n, h, "DO", "DONT") /\ Added(v, n, h, "DONT", "DO")
    BY <2>2, CommandAdds DEF AnswerTags, T!Requests
  <2>6. Agree(t, p, u, "WILL", "WONT", n, "DO", "DONT")
    BY <2>5, OtherAdded DEF BothAgree
  <2>7. QED
    BY <1>1, <2>2, <2>4, <2>6 DEF BothAgree
<1>2. CASE z \in {"DO", "DONT"}
  <2>1. answer \in {T!AskYes(t, "DO"), T!AskNo(t, "DONT")}
    BY <1>2 DEF AskAnswer
  <2>2. answer[2] \in {<< >>, <<"DO">>, <<"DONT">>}
    BY <2>1 DEF T!AskYes, T!AskNo, T!Option
  <2>3. Says(v, n, answer[2], "DO", "DONT")
    BY <2>2, AnswerSays DEF T!Requests
  <2>4. answer[1] \in T!Option /\ Agree(answer[1], p, u, "WILL", "WONT", n, "DO", "DONT")
    BY <2>1, <2>3, AskKeepsAgree DEF BothAgree
  <2>5. v = n \/ \E h \in {"DO", "DONT"} :
                    Added(v, n, h, "WILL", "WONT") /\ Added(v, n, h, "WONT", "WILL")
    BY <2>2, CommandAdds DEF AnswerTags, T!Requests
  <2>6. Agree(o, r, u, "DO", "DONT", n, "WILL", "WONT")
    BY <2>5, OtherAdded DEF BothAgree
  <2>7. QED
    BY <1>2, <2>2, <2>4, <2>6 DEF BothAgree
<1>3. QED
  BY <1>1, <1>2 DEF T!Requests

\* The end reads the command z, the first of the tags u.
ReadAnswer(o, t, z) == CASE z = "DO"   -> T!OnYes(o, TRUE, "WILL", "WONT")
                         [] z = "DONT" -> T!OnNo(o, "WONT")
                         [] z = "WILL" -> T!OnYes(t, TRUE, "DO", "DONT")
                         [] z = "WONT" -> T!OnNo(t, "DONT")

LEMMA ReadKeepsBoth ==
  ASSUME NEW o \in T!Option, NEW t \in T!Option, NEW p \in T!Option, NEW r \in T!Option,
         o # "WantNoQueued",
         NEW u \in Seq(Tags), NEW v \in Seq(Tags), BothAgree(o, t, p, r, u, v),
         u # << >>, NEW z \in T!Requests, z = u[1],
         NEW answer, answer = ReadAnswer(o, t, z),
         NEW n, n = AnswerTags(v, answer[2])
  PROVE  /\ answer[1] \in T!Option
         /\ answer[2] = << >> \/ answer[2] \in {<<"WILL">>, <<"WONT">>, <<"DO">>, <<"DONT">>}
         /\ z \in {"DO", "DONT"} => answer[1] # "WantNoQueued"
         /\ IF z \in {"DO", "DONT"} THEN BothAgree(answer[1], t, p, r, Tail(u), n)
                                    ELSE BothAgree(o, answer[1], p, r, Tail(u), n)
<1>0. /\ Tail(u) \in Seq(Tags)
      /\ Taken(u, Tail(u), z, "DO", "DONT") /\ Taken(u, Tail(u), z, "DONT", "DO")
      /\ Taken(u, Tail(u), z, "WILL", "WONT") /\ Taken(u, Tail(u), z, "WONT", "WILL")
  <2>1. Tail(u) \in Seq(Tags)
    OBVIOUS
  <2>2. \A c, d \in T!Requests : c # d => Taken(u, Tail(u), u[1], c, d)
    BY TailTakes
  <2>3. QED
    BY <2>1, <2>2 DEF T!Requests
<1>1. CASE z = "DO" \/ z = "DONT"
  <2>1. Agree(o, r, u, "DO", "DONT", v, "WILL", "WONT")
    BY DEF BothAgree
  <2>2. answer = IF z = "DO" THEN T!OnYes(o, TRUE, "WILL", "WONT") ELSE T!OnNo(o, "WONT")
    BY <1>1 DEF ReadAnswer
  <2>3. answer[2] \in {<< >>, <<"WILL">>, <<"WONT">>} /\ answer[1] # "WantNoQueued"
    BY <2>2 DEF T!OnYes, T!OnNo, T!Option
  <2>4. Says(v, n, answer[2], "WILL", "WONT")
    BY <2>3, AnswerSays DEF T!Requests
  <2>5. /\ answer[1] \in T!Option
        /\ Agree(answer[1], r, Tail(u), "DO", "DONT", n, "WILL", "WONT")
    <3>1. CASE z = "DO"
      <4>1. answer = T!OnYes(o, TRUE, "WILL", "WONT")
        BY <2>2, <3>1
      <4>2. Taken(u, Tail(u), "DO", "DO", "DONT") /\ Taken(u, Tail(u), "DO", "DONT", "DO")
        BY <1>0, <3>1
      <4>3. QED
        BY <1>0, <2>1, <2>4, <4>1, <4>2, YesKeepsAgree
    <3>2. CASE z = "DONT"
      <4>1. answer = T!OnNo(o, "WONT")
        BY <2>2, <3>2
      <4>2. Taken(u, Tail(u), "DONT", "DO", "DONT") /\ Taken(u, Tail(u), "DONT", "DONT", "DO")
        BY <1>0, <3>2
      <4>3. QED
        BY <1>0, <2>1, <2>4, <4>1, <4>2, NoKeepsAgree
    <3>3. QED
      BY <1>1, <3>1, <3>2
  <2>6. v = n \/ \E h \in {"WILL", "WONT"} :
                    Added(v, n, h, "DO", "DONT") /\ Added(v, n, h, "DONT", "DO")
    BY <2>3, CommandAdds DEF AnswerTags, T!Requests
  <2>7. Agree(t, p, u, "WILL", "WONT", n, "DO", "DONT")
    BY <2>6, OtherAdded DEF BothAgree
  <2>8. Agree(t, p, Tail(u), "WILL", "WONT", n, "DO", "DONT")
    BY <1>0, <1>1, <2>7, OtherTaken
  <2>9. QED
    BY <1>1, <2>3, <2>5, <2>8 DEF BothAgree
<1>2. CASE z = "WILL" \/ z = "WONT"
  <2>1. Agree(t, p, u, "WILL", "WONT", v, "DO", "DONT")
    BY DEF BothAgree
  <2>2. answer = IF z = "WILL" THEN T!OnYes(t, TRUE, "DO", "DONT") ELSE T!OnNo(t, "DONT")
    BY <1>2 DEF ReadAnswer
  <2>3. answer[2] \in {<< >>, <<"DO">>, <<"DONT">>}
    BY <2>2 DEF T!OnYes, T!OnNo, T!Option
  <2>4. Says(v, n, answer[2], "DO", "DONT")
    BY <2>3, AnswerSays DEF T!Requests
  <2>5. /\ answer[1] \in T!Option
        /\ Agree(answer[1], p, Tail(u), "WILL", "WONT", n, "DO", "DONT")
    <3>1. CASE z = "WILL"
      <4>1. answer = T!OnYes(t, TRUE, "DO", "DONT")
        BY <2>2, <3>1
      <4>2. Taken(u, Tail(u), "WILL", "WILL", "WONT") /\ Taken(u, Tail(u), "WILL", "WONT", "WILL")
        BY <1>0, <3>1
      <4>3. QED
        BY <1>0, <2>1, <2>4, <4>1, <4>2, YesKeepsAgree
    <3>2. CASE z = "WONT"
      <4>1. answer = T!OnNo(t, "DONT")
        BY <2>2, <3>2
      <4>2. Taken(u, Tail(u), "WONT", "WILL", "WONT") /\ Taken(u, Tail(u), "WONT", "WONT", "WILL")
        BY <1>0, <3>2
      <4>3. QED
        BY <1>0, <2>1, <2>4, <4>1, <4>2, NoKeepsAgree
    <3>3. QED
      BY <1>2, <3>1, <3>2
  <2>6. v = n \/ \E h \in {"DO", "DONT"} :
                    Added(v, n, h, "WILL", "WONT") /\ Added(v, n, h, "WONT", "WILL")
    BY <2>3, CommandAdds DEF AnswerTags, T!Requests
  <2>7. Agree(o, r, u, "DO", "DONT", n, "WILL", "WONT")
    BY <2>6, OtherAdded DEF BothAgree
  <2>8. Agree(o, r, Tail(u), "DO", "DONT", n, "WILL", "WONT")
    BY <1>0, <1>2, <2>7, OtherTaken
  <2>9. QED
    BY <1>2, <2>3, <2>5, <2>8 DEF BothAgree
<1>3. QED
  BY <1>1, <1>2 DEF T!Requests

-----------------------------------------------------------------------------
(* The connection.                                                         *)

LEMMA TwoEnds ==
  /\ T!Ends = {Local, Remote} /\ Local # Remote
  /\ \A e \in T!Ends : T!Peer(e) \in T!Ends /\ T!Peer(e) # e /\ T!Peer(T!Peer(e)) = e
  /\ \A e, f \in T!Ends : f = e \/ f = T!Peer(e)
BY PartsAssumption DEF T!EndsAssumption, T!Ends, T!Peer

Asked == [by : T!Ends, what : T!Requests, found : T!Option]

TelnetType == /\ T!TypeOK
              /\ second \in {<< >>, <<"NUL">>, <<"IAC">>}
              /\ written \in Seq(T!Data) /\ received \in Seq(Bytes)
              /\ asked \in Seq(Asked)

LEMMA InitTelnetType == T!TelnetInit => TelnetType
BY DEF T!TelnetInit, TelnetType, T!TypeOK, T!Option

\* The answers of the four handlers.
Answers == T!Option \X {<< >>, <<"WILL">>, <<"WONT">>, <<"DO">>, <<"DONT">>}

LEMMA AskingType ==
  ASSUME TelnetType, NEW e \in T!Ends, NEW c \in T!Requests
  PROVE  T!Asking(e, c) \in Answers
BY DEF TelnetType, T!TypeOK, T!Asking, T!AskYes, T!AskNo, T!Option, T!Requests, Answers

LEMMA AnsweringType ==
  ASSUME TelnetType, NEW e \in T!Ends, NEW c \in T!Requests
  PROVE  T!Answering(e, c) \in Answers
BY DEF TelnetType, T!TypeOK, T!Answering, T!OnYes, T!OnNo, T!Option, T!Requests, Answers

LEMMA SentType ==
  ASSUME NEW answer \in Answers, NEW b \in Bytes
  PROVE  T!Sent(answer[2], b) \in Seq(Bytes)
<1>1. "IAC" \in Bytes /\ \A c \in T!Requests : c \in Bytes
  BY DEF Bytes, T!Data
<1>2. answer[2] = << >> \/ answer[2][1] \in T!Requests
  BY DEF Answers, T!Requests
<1>3. QED
  BY <1>1, <1>2 DEF T!Sent

LEMMA StepTelnetType == ASSUME TelnetType, [T!TelnetNext]_(T!telnetVars) PROVE TelnetType'
<1> USE DEF TelnetType, T!TypeOK
<1>1. wire \in [T!Ends -> Seq(Bytes)]
  BY DEF Bytes
<1>2. ASSUME NEW e \in T!Ends, T!ReadByte(e) PROVE TelnetType'
  <2> DEFINE b == Head(wire[e])
  <2>1. wire[e] # << >> /\ wire[e] \in Seq(Bytes) /\ UNCHANGED <<second, written, asked>>
    BY <1>1, <1>2 DEF T!ReadByte
  <2>2. b \in Bytes /\ Tail(wire[e]) \in Seq(Bytes)
    BY <2>1
  <2>3. CASE T!ReadData(e, b) \/ T!DropNull(e, b) \/ T!ReadAfterIAC(e, b)
    <3>1. received' \in Seq(Bytes)
      <4>1. Append(received, b) \in Seq(Bytes)
        BY <2>2
      <4>2. received' = received \/ received' = Append(received, b)
        BY <2>3 DEF T!ReadData, T!DropNull, T!ReadAfterIAC, T!Deliver
      <4>3. QED
        BY <4>1, <4>2
    <3>2. state' \in [T!Ends -> {"Normal", "CarriageReturn", "IAC"} \cup T!Requests]
      BY <2>3 DEF T!ReadData, T!DropNull, T!ReadAfterIAC
    <3>3. wire' \in [T!Ends -> Seq(Bytes)]
      BY <1>1, <2>2, <2>3 DEF T!ReadData, T!DropNull, T!ReadAfterIAC, T!Take
    <3>4. QED
      BY <2>1, <2>3, <3>1, <3>2, <3>3
         DEF T!ReadData, T!DropNull, T!ReadAfterIAC, T!Keep, Bytes
  <2>4. CASE T!ReadOption(e, b)
    <3> DEFINE c == state[e]
               other == CASE c = "DO" -> <<"WONT">> [] c = "WILL" -> <<"DONT">> [] OTHER -> << >>
               answer == IF b = "NUL" THEN T!Answering(e, c) ELSE <<"none", other>>
               reply == T!Sent(answer[2], b)
    <3>1. c \in T!Requests
      BY <2>4 DEF T!ReadOption
    <3>2. /\ state' = [state EXCEPT ![e] = "Normal"]
          /\ IF b = "NUL" THEN T!SetOption(e, c \in {"DO", "DONT"}, answer[1]) ELSE T!Keep
          /\ wire' = [wire EXCEPT ![e] = Tail(@), ![T!Peer(e)] = @ \o reply]
          /\ UNCHANGED received
      BY <2>4 DEF T!ReadOption
    <3>3. reply \in Seq(Bytes)
      <4>1. other \in {<< >>, <<"WILL">>, <<"WONT">>, <<"DO">>, <<"DONT">>}
        OBVIOUS
      <4>2. CASE b = "NUL"
        BY <2>2, <3>1, <4>2, AnsweringType, SentType
      <4>3. CASE b # "NUL"
        <5>1. <<"IsNo", other>> \in Answers
          BY <4>1 DEF Answers, T!Option
        <5>2. T!Sent(other, b) \in Seq(Bytes)
          BY <2>2, <5>1, SentType
        <5>3. QED
          BY <4>3, <5>2
      <4>4. QED
        BY <4>2, <4>3
    <3>4. b = "NUL" => answer[1] \in T!Option
      BY <3>1, AnsweringType DEF Answers
    <3> HIDE DEF reply, answer, b
    <3>5. wire' \in [T!Ends -> Seq(Bytes)]
      <4>1. wire[T!Peer(e)] \o reply \in Seq(Bytes)
        BY <1>1, <3>3, TwoEnds
      <4>2. wire' = [wire EXCEPT ![e] = Tail(wire[e]), ![T!Peer(e)] = wire[T!Peer(e)] \o reply]
        BY <1>1, <3>2, TwoEnds
      <4>3. QED
        BY <1>1, <2>2, <4>1, <4>2
    <3>6. state' \in [T!Ends -> {"Normal", "CarriageReturn", "IAC"} \cup T!Requests]
      BY <3>2
    <3>7. ourState' \in [T!Ends -> T!Option] /\ theirState' \in [T!Ends -> T!Option]
      BY <3>2, <3>4 DEF T!SetOption, T!Keep
    <3>8. QED
      BY <2>1, <3>2, <3>5, <3>6, <3>7 DEF Bytes
  <2>5. QED
    BY <1>2, <2>3, <2>4 DEF T!ReadByte
<1>3. ASSUME NEW e \in T!Ends, NEW c \in T!Requests, T!Ask(e, c) PROVE TelnetType'
  <2> DEFINE answer == T!Asking(e, c)
             reply == T!Sent(answer[2], "NUL")
             ours == c \in {"WILL", "WONT"}
             found == IF ours THEN ourState[e] ELSE theirState[e]
  <2>1. answer \in Answers /\ answer[1] \in T!Option /\ found \in T!Option
    BY AskingType DEF Answers
  <2>2. reply \in Seq(Bytes)
    BY <2>1, SentType DEF Bytes, T!Data
  <2>3. /\ T!SetOption(e, ours, answer[1])
        /\ wire' = [wire EXCEPT ![T!Peer(e)] = @ \o reply]
        /\ asked' = Append(asked, [by |-> e, what |-> c, found |-> found])
        /\ UNCHANGED <<state, second, written, received>>
    BY <1>3 DEF T!Ask
  <2> HIDE DEF answer, reply, found
  <2>4. wire' \in [T!Ends -> Seq(Bytes)]
    BY <1>1, <2>2, <2>3, TwoEnds
  <2>5. ourState' \in [T!Ends -> T!Option] /\ theirState' \in [T!Ends -> T!Option]
    BY <2>1, <2>3 DEF T!SetOption
  <2>6. asked' \in Seq(Asked)
    BY <2>1, <2>3 DEF Asked
  <2>7. QED
    BY <2>3, <2>4, <2>5, <2>6 DEF Bytes
<1>4. ASSUME NEW b \in T!Data, T!Write(b) PROVE TelnetType'
  <2>1. b \in Bytes
    BY DEF Bytes
  <2>2. Append(wire[Remote], b) \in Seq(Bytes) /\ Append(written, b) \in Seq(T!Data)
    BY <1>1, <2>1, TwoEnds
  <2>3. wire' \in [T!Ends -> Seq(Bytes)] /\ written' \in Seq(T!Data)
    BY <1>1, <1>4, <2>2 DEF T!Write
  <2>4. second' \in {<< >>, <<"NUL">>, <<"IAC">>}
    BY <1>4 DEF T!Write
  <2>5. QED
    BY <1>4, <2>3, <2>4 DEF T!Write, Bytes
<1>5. CASE T!WriteSecond
  <2>1. second \in Seq(Bytes)
    <3>1. "NUL" \in Bytes /\ "IAC" \in Bytes
      BY DEF Bytes, T!Data
    <3>2. << >> \in Seq(Bytes) /\ <<"NUL">> \in Seq(Bytes) /\ <<"IAC">> \in Seq(Bytes)
      BY <3>1
    <3>3. QED
      BY <3>2
  <2>2. wire' \in [T!Ends -> Seq(Bytes)]
    <3>1. wire[Remote] \o second \in Seq(Bytes)
      BY <1>1, <2>1, TwoEnds
    <3>2. QED
      BY <1>1, <1>5, <3>1 DEF T!WriteSecond
  <2>3. QED
    BY <1>5, <2>2 DEF T!WriteSecond, Bytes
<1>6. CASE UNCHANGED T!telnetVars
  BY <1>6 DEF T!telnetVars
<1>7. QED
  BY <1>2, <1>3, <1>4, <1>5, <1>6 DEF T!TelnetNext

\* The tags of the bytes on both wires, where the commands are under way that the
\* ends still need to come to an agreement.
Coarse(s)  == IF s = "CarriageReturn" THEN "Normal" ELSE s
LastTag(e) == IF e = Remote /\ second = <<"IAC">> THEN "IAC" ELSE "Normal"

Negotiated ==
  \E tag \in [T!Ends -> Seq(Tags)] :
    \A e \in T!Ends :
      /\ Tagged(wire[e], tag[e], Coarse(state[e]), LastTag(e))
      /\ BothAgree(ourState[e], theirState[e], ourState[T!Peer(e)], theirState[T!Peer(e)],
                   tag[e], tag[T!Peer(e)])

NotQueued == \A e \in T!Ends : ourState[e] # "WantNoQueued"

AgreeInv == ~T!Requeued => NotQueued /\ Negotiated

LEMMA InitAgree == T!TelnetInit => AgreeInv
<1> SUFFICES ASSUME T!TelnetInit PROVE NotQueued /\ Negotiated
  BY DEF AgreeInv
<1> DEFINE tag == [e \in T!Ends |-> <<"Normal">>]
<1>1. tag \in [T!Ends -> Seq(Tags)]
  BY DEF Tags
<1>2. ASSUME NEW e \in T!Ends PROVE Tagged(wire[e], tag[e], Coarse(state[e]), LastTag(e))
  BY DEF T!TelnetInit, Tagged, Coarse, LastTag, Tags
<1>3. ASSUME NEW t, t = <<"Normal">> PROVE BothAgree("IsNo", "IsNo", "IsNo", "IsNo", t, t)
  <2>1. \A c \in T!Requests : ~Has(t, c)
    BY <1>3 DEF Has, T!Requests
  <2>2. QED
    BY <2>1 DEF BothAgree, Agree, Ended, Pending, Disabling, Enabling, T!Requests
<1>4. ASSUME NEW e \in T!Ends
      PROVE  BothAgree(ourState[e], theirState[e], ourState[T!Peer(e)], theirState[T!Peer(e)],
                       tag[e], tag[T!Peer(e)])
  BY <1>3, TwoEnds DEF T!TelnetInit
<1>5. QED
  BY <1>1, <1>2, <1>4 DEF T!TelnetInit, Negotiated, NotQueued

\* It is enough to have new tags for both wires, and the agreement from one end.
LEMMA NegotiatedBy ==
  ASSUME NEW e \in T!Ends, NEW f, f = T!Peer(e), NEW u \in Seq(Tags), NEW v \in Seq(Tags),
         Tagged(wire'[e], u, Coarse(state'[e]), LastTag(e)'),
         Tagged(wire'[f], v, Coarse(state'[f]), LastTag(f)'),
         BothAgree(ourState'[e], theirState'[e], ourState'[f], theirState'[f], u, v)
  PROVE  Negotiated'
<1> DEFINE tag == [g \in T!Ends |-> IF g = e THEN u ELSE v]
<1>1. tag \in [T!Ends -> Seq(Tags)] /\ tag[e] = u /\ tag[f] = v
  BY TwoEnds
<1>2. BothAgree(ourState'[f], theirState'[f], ourState'[e], theirState'[e], v, u)
  BY BothSwapped
<1> HIDE DEF tag
<1>3. ASSUME NEW g \in T!Ends
      PROVE  /\ Tagged(wire'[g], tag[g], Coarse(state'[g]), LastTag(g)')
             /\ BothAgree(ourState'[g], theirState'[g], ourState'[T!Peer(g)],
                          theirState'[T!Peer(g)], tag[g], tag[T!Peer(g)])
  <2>1. CASE g = e
    BY <1>1, <2>1
  <2>2. CASE g = f
    BY <1>1, <1>2, <2>2, TwoEnds
  <2>3. QED
    BY <2>1, <2>2, TwoEnds
<1>4. QED
  BY <1>1, <1>3 DEF Negotiated

LEMMA RequeuedStays ==
  ASSUME TelnetType, [T!TelnetNext]_(T!telnetVars), T!Requeued PROVE T!Requeued'
<1>1. asked' = asked \/ \E z \in Asked : asked' = Append(asked, z)
  <2>1. ASSUME NEW e \in T!Ends, NEW c \in T!Requests, T!Ask(e, c)
        PROVE  \E z \in Asked : asked' = Append(asked, z)
    <3> DEFINE z == [by |-> e, what |-> c, found |-> IF c \in {"WILL", "WONT"} THEN ourState[e]
                                                     ELSE theirState[e]]
    <3>1. z \in Asked
      BY DEF Asked, TelnetType, T!TypeOK
    <3>2. asked' = Append(asked, z)
      BY <2>1 DEF T!Ask
    <3>3. QED
      BY <3>1, <3>2
  <2>2. QED
    BY <2>1 DEF T!TelnetNext, T!telnetVars, T!ReadByte, T!Write, T!WriteSecond
<1>2. ASSUME NEW z \in Asked, asked' = Append(asked, z) PROVE T!Requeued'
  <2>1. PICK i \in DOMAIN asked : asked[i].what = "WILL" /\ asked[i].found = "WantNo"
    BY DEF T!Requeued
  <2>2. asked \in Seq(Asked)
    BY DEF TelnetType
  <2>3. i \in DOMAIN asked' /\ asked'[i] = asked[i]
    BY <1>2, <2>2
  <2>4. QED
    BY <2>1, <2>3 DEF T!Requeued
<1>3. QED
  BY <1>1, <1>2 DEF T!Requeued

\* An answer of the code is one on the tags.
LEMMA AnswerTagged ==
  ASSUME NEW q, NEW t, NEW first, Tagged(q, t, first, "Normal"), NEW answer \in Answers
  PROVE  Tagged(q \o T!Sent(answer[2], "NUL"), AnswerTags(t, answer[2]), first, "Normal")
<1>1. CASE answer[2] = << >>
  <2>1. q \o << >> = q
    BY DEF Tagged
  <2>2. QED
    BY <1>1, <2>1 DEF T!Sent, AnswerTags
<1>2. CASE answer[2] # << >>
  <2>1. answer[2][1] \in T!Requests
    BY <1>2 DEF Answers, T!Requests
  <2>2. QED
    BY <1>2, <2>1, TaggedCommand DEF T!Sent, AnswerTags
<1>3. QED
  BY <1>1, <1>2

LEMMA AskAgrees ==
  ASSUME TelnetType, NotQueued, Negotiated, ~T!Requeued',
         NEW e \in T!Ends, NEW c \in T!Requests, T!Ask(e, c)
  PROVE  NotQueued' /\ Negotiated'
<1> DEFINE f == T!Peer(e)
           answer == T!Asking(e, c)
<1>1. PICK tag \in [T!Ends -> Seq(Tags)] :
        \A g \in T!Ends :
          /\ Tagged(wire[g], tag[g], Coarse(state[g]), LastTag(g))
          /\ BothAgree(ourState[g], theirState[g], ourState[T!Peer(g)], theirState[T!Peer(g)],
                       tag[g], tag[T!Peer(g)])
  BY DEF Negotiated
<1>2. /\ T!SetOption(e, c \in {"WILL", "WONT"}, answer[1])
      /\ wire' = [wire EXCEPT ![f] = @ \o T!Sent(answer[2], "NUL")]
      /\ UNCHANGED <<state, second>>
      /\ e = Local => second = << >>
  BY DEF T!Ask
<1>3. f \in T!Ends /\ f # e /\ answer \in Answers
  BY TwoEnds, AskingType
<1>4. /\ \A g \in T!Ends : ourState[g] \in T!Option /\ theirState[g] \in T!Option
      /\ \A g \in T!Ends : wire[g] \in Seq(Bytes)
  BY DEF TelnetType, T!TypeOK, Bytes
<1>5. LastTag(f) = "Normal" /\ LastTag(f)' = "Normal" /\ LastTag(e)' = LastTag(e)
  <2>1. f = Remote => e = Local
    BY <1>3, TwoEnds
  <2>2. f = Remote => second # <<"IAC">> /\ second' # <<"IAC">>
    BY <1>2, <2>1
  <2>3. QED
    BY <1>2, <2>2 DEF LastTag
<1> DEFINE n == AnswerTags(tag[f], answer[2])
<1>6. Tagged(wire'[f], n, Coarse(state'[f]), LastTag(f)')
  <2>1. Tagged(wire[f], tag[f], Coarse(state[f]), "Normal")
    BY <1>1, <1>3, <1>5
  <2>2. wire'[f] = wire[f] \o T!Sent(answer[2], "NUL")
    BY <1>2, <1>3 DEF TelnetType, T!TypeOK
  <2>3. QED
    BY <1>2, <1>3, <1>5, <2>1, <2>2, AnswerTagged
<1>7. Tagged(wire'[e], tag[e], Coarse(state'[e]), LastTag(e)')
  BY <1>1, <1>2, <1>3, <1>5 DEF TelnetType, T!TypeOK
<1>8. /\ answer[1] \in T!Option
      /\ IF c \in {"WILL", "WONT"}
         THEN BothAgree(answer[1], theirState[e], ourState[f], theirState[f], tag[e], n)
         ELSE BothAgree(ourState[e], answer[1], ourState[f], theirState[f], tag[e], n)
  <2>1. answer = AskAnswer(ourState[e], theirState[e], c)
    BY DEF T!Asking, AskAnswer
  <2>2. BothAgree(ourState[e], theirState[e], ourState[f], theirState[f], tag[e], tag[f])
    BY <1>1
  <2>3. tag[e] \in Seq(Tags) /\ tag[f] \in Seq(Tags)
    BY <1>3
  <2> HIDE DEF answer, n, f
  <2>4. QED
    BY <1>3, <1>4, <2>1, <2>2, <2>3, AskKeepsBoth DEF n
<1>9. BothAgree(ourState'[e], theirState'[e], ourState'[f], theirState'[f], tag[e], n)
  BY <1>2, <1>3, <1>8 DEF T!SetOption, TelnetType, T!TypeOK
<1>10. tag[e] \in Seq(Tags) /\ n \in Seq(Tags)
  BY <1>6 DEF Tagged
<1>11. Negotiated'
  <2> HIDE DEF n, f
  <2>1. QED
    BY <1>6, <1>7, <1>9, <1>10, NegotiatedBy DEF f
<1>12. NotQueued'
  <2>1. CASE c \notin {"WILL", "WONT"}
    BY <1>2, <2>1 DEF T!SetOption, NotQueued
  <2>2. CASE c = "WONT"
    <3>1. answer[1] # "WantNoQueued"
      BY <1>4, <2>2 DEF T!Asking, T!AskNo, T!Option
    <3>2. QED
      BY <1>2, <2>2, <3>1 DEF T!SetOption, NotQueued, TelnetType, T!TypeOK
  <2>3. CASE c = "WILL"
    <3>1. ourState[e] # "WantNo"
      <4> DEFINE z == [by |-> e, what |-> c, found |-> ourState[e]]
      <4>1. asked' = Append(asked, z) /\ z.what = "WILL" /\ z.found = ourState[e]
        BY <2>3 DEF T!Ask
      <4> HIDE DEF z
      <4>2. asked \in Seq(Asked)
        BY DEF TelnetType
      <4>3. Len(asked) + 1 \in DOMAIN asked' /\ asked'[Len(asked) + 1] = z
        BY <4>1, <4>2
      <4>4. QED
        BY <4>1, <4>3 DEF T!Requeued
    <3>2. answer[1] # "WantNoQueued"
      BY <1>4, <2>3, <3>1 DEF T!Asking, T!AskYes, T!Option
    <3>3. QED
      BY <1>2, <2>3, <3>2 DEF T!SetOption, NotQueued, TelnetType, T!TypeOK
  <2>4. QED
    BY <2>1, <2>2, <2>3
<1>13. QED
  BY <1>11, <1>12

\* The end reads a byte that is no option.
LEMMA ReadAgrees ==
  ASSUME TelnetType, NotQueued, Negotiated,
         NEW e \in T!Ends, wire[e] # << >>, UNCHANGED second,
         NEW b, b = Head(wire[e]),
         T!ReadData(e, b) \/ T!DropNull(e, b) \/ T!ReadAfterIAC(e, b)
  PROVE  NotQueued' /\ Negotiated'
<1> DEFINE f == T!Peer(e)
           first == Coarse(state[e])
<1>1. PICK tag \in [T!Ends -> Seq(Tags)] :
        \A g \in T!Ends :
          /\ Tagged(wire[g], tag[g], Coarse(state[g]), LastTag(g))
          /\ BothAgree(ourState[g], theirState[g], ourState[T!Peer(g)], theirState[T!Peer(g)],
                       tag[g], tag[T!Peer(g)])
  BY DEF Negotiated
<1>2. f \in T!Ends /\ f # e
  BY TwoEnds
<1>3. /\ UNCHANGED <<ourState, theirState>>
      /\ wire' = [wire EXCEPT ![e] = Tail(wire[e])]
      /\ \A g \in T!Ends : g # e => state'[g] = state[g]
      /\ state[e] \in {"Normal", "CarriageReturn", "IAC"}
  BY DEF T!ReadData, T!DropNull, T!ReadAfterIAC, T!Keep, T!Take, TelnetType, T!TypeOK
<1>4. /\ b \in LegalAt(first)
      /\ Tagged(Tail(wire[e]), Tail(tag[e]), NextTag(first, b), LastTag(e))
  BY <1>1, TaggedTail
<1>5. Coarse(state'[e]) = NextTag(first, b)
  <2>1. CASE T!ReadData(e, b) \/ T!DropNull(e, b)
    BY <2>1 DEF T!ReadData, T!DropNull, Coarse, NextTag, TelnetType, T!TypeOK
  <2>2. CASE T!ReadAfterIAC(e, b)
    BY <2>2 DEF T!ReadAfterIAC, Coarse, NextTag, TelnetType, T!TypeOK, T!Requests
  <2>3. QED
    BY <2>1, <2>2
<1>6. LastTag(e)' = LastTag(e) /\ LastTag(f)' = LastTag(f)
  BY DEF LastTag
<1>7. Tagged(wire'[e], Tail(tag[e]), Coarse(state'[e]), LastTag(e)')
  BY <1>3, <1>4, <1>5, <1>6 DEF TelnetType, T!TypeOK
<1>8. Tagged(wire'[f], tag[f], Coarse(state'[f]), LastTag(f)')
  BY <1>1, <1>2, <1>3, <1>6 DEF TelnetType, T!TypeOK
<1>9. BothAgree(ourState'[e], theirState'[e], ourState'[f], theirState'[f], Tail(tag[e]), tag[f])
  <2>1. tag[e] \in Seq(Tags) /\ tag[e] # << >> /\ tag[e][1] = first
    BY <1>1, <1>4 DEF Tagged
  <2>2. first \in {"Normal", "IAC"}
    BY <1>3 DEF Coarse
  <2>3. Alike(tag[e], Tail(tag[e])) /\ Alike(tag[f], tag[f])
    BY <2>1, <2>2, TailAlike, SameIsAlike
  <2>4. BothAgree(ourState[e], theirState[e], ourState[f], theirState[f], tag[e], tag[f])
    BY <1>1
  <2>5. QED
    BY <1>3, <2>3, <2>4, BothAlike
<1>10. Tail(tag[e]) \in Seq(Tags) /\ tag[f] \in Seq(Tags)
  BY <1>7, <1>8 DEF Tagged
<1>11. Negotiated'
  <2> HIDE DEF f
  <2>1. QED
    BY <1>7, <1>8, <1>9, <1>10, NegotiatedBy DEF f
<1>12. QED
  BY <1>3, <1>11 DEF NotQueued

\* The end reads the option of a command, and answers.
LEMMA OptionAgrees ==
  ASSUME TelnetType, NotQueued, Negotiated,
         NEW e \in T!Ends, wire[e] # << >>, UNCHANGED second, e = Local => second = << >>,
         NEW b, b = Head(wire[e]), T!ReadOption(e, b)
  PROVE  NotQueued' /\ Negotiated'
<1> DEFINE f == T!Peer(e)
           c == state[e]
           answer == T!Answering(e, c)
<1>1. PICK tag \in [T!Ends -> Seq(Tags)] :
        \A g \in T!Ends :
          /\ Tagged(wire[g], tag[g], Coarse(state[g]), LastTag(g))
          /\ BothAgree(ourState[g], theirState[g], ourState[T!Peer(g)], theirState[T!Peer(g)],
                       tag[g], tag[T!Peer(g)])
  BY DEF Negotiated
<1>2. f \in T!Ends /\ f # e /\ c \in T!Requests /\ answer \in Answers /\ e \in {Local, Remote}
  BY TwoEnds, AnsweringType DEF T!ReadOption
<1>3. /\ \A g \in T!Ends : ourState[g] \in T!Option /\ theirState[g] \in T!Option
      /\ \A g \in T!Ends : wire[g] \in Seq(Bytes)
  BY DEF TelnetType, T!TypeOK, Bytes
<1>4. Coarse(c) = c /\ NextTag(c, "NUL") = "Normal" /\ LegalAt(c) = {"NUL"}
  BY <1>2 DEF T!Requests, Coarse, NextTag, LegalAt
<1>5. b = "NUL" /\ Tagged(Tail(wire[e]), Tail(tag[e]), "Normal", LastTag(e))
  BY <1>1, <1>4, TaggedTail
<1>6. /\ T!SetOption(e, c \in {"DO", "DONT"}, answer[1])
      /\ wire' = [wire EXCEPT ![e] = Tail(wire[e]), ![f] = wire[f] \o T!Sent(answer[2], "NUL")]
      /\ state' = [state EXCEPT ![e] = "Normal"]
  BY <1>2, <1>5 DEF T!ReadOption, TelnetType, T!TypeOK
<1>7. LastTag(f) = "Normal" /\ LastTag(f)' = "Normal" /\ LastTag(e)' = LastTag(e)
  <2>1. f = Remote => e = Local
    BY <1>2, TwoEnds
  <2>2. f = Remote => second # <<"IAC">> /\ second' # <<"IAC">>
    BY <2>1
  <2>3. QED
    BY <2>2 DEF LastTag
<1> DEFINE u == Tail(tag[e])
           n == AnswerTags(tag[f], answer[2])
<1>8. Tagged(wire'[f], n, Coarse(state'[f]), LastTag(f)')
  <2>1. Tagged(wire[f], tag[f], Coarse(state[f]), "Normal")
    BY <1>1, <1>2, <1>7
  <2>2. wire'[f] = wire[f] \o T!Sent(answer[2], "NUL") /\ state'[f] = state[f]
    BY <1>2, <1>6 DEF TelnetType, T!TypeOK
  <2>3. QED
    BY <1>2, <1>7, <2>1, <2>2, AnswerTagged
<1>9. Tagged(wire'[e], u, Coarse(state'[e]), LastTag(e)')
  <2>1. wire'[e] = Tail(wire[e]) /\ state'[e] = "Normal"
    BY <1>2, <1>6 DEF TelnetType, T!TypeOK
  <2>2. Coarse("Normal") = "Normal"
    BY DEF Coarse
  <2>3. QED
    BY <1>5, <1>7, <2>1, <2>2
<1>10. /\ answer[1] \in T!Option
       /\ c \in {"DO", "DONT"} => answer[1] # "WantNoQueued"
       /\ IF c \in {"DO", "DONT"}
          THEN BothAgree(answer[1], theirState[e], ourState[f], theirState[f], u, n)
          ELSE BothAgree(ourState[e], answer[1], ourState[f], theirState[f], u, n)
  <2>1. answer = ReadAnswer(ourState[e], theirState[e], c)
    BY <1>2 DEF T!Answering, ReadAnswer
  <2>2. BothAgree(ourState[e], theirState[e], ourState[f], theirState[f], tag[e], tag[f])
    BY <1>1
  <2>3. tag[e] \in Seq(Tags) /\ tag[f] \in Seq(Tags)
    BY <1>2
  <2>4. tag[e] # << >> /\ tag[e][1] = c
    <3>1. Tagged(wire[e], tag[e], c, LastTag(e))
      BY <1>1, <1>4
    <3>2. QED
      BY <3>1 DEF Tagged
  <2>5. ourState[e] # "WantNoQueued"
    BY DEF NotQueued
  <2> HIDE DEF answer, n, f, c, u
  <2>6. QED
    BY <1>2, <1>3, <2>1, <2>2, <2>3, <2>4, <2>5, ReadKeepsBoth DEF n, u
<1>11. BothAgree(ourState'[e], theirState'[e], ourState'[f], theirState'[f], u, n)
  BY <1>2, <1>6, <1>10 DEF T!SetOption, TelnetType, T!TypeOK
<1>12. u \in Seq(Tags) /\ n \in Seq(Tags)
  BY <1>8, <1>9 DEF Tagged
<1>13. Negotiated'
  <2> HIDE DEF n, f, u
  <2>1. QED
    BY <1>8, <1>9, <1>11, <1>12, NegotiatedBy DEF f
<1>14. NotQueued'
  <2> HIDE DEF answer
  <2>1. QED
    BY <1>6, <1>10 DEF T!SetOption, NotQueued, TelnetType, T!TypeOK
<1>15. QED
  BY <1>13, <1>14

\* The writer sends the byte b of the data, or what there is to send after it.
LEMMA ByteAgrees ==
  ASSUME TelnetType, NotQueued, Negotiated,
         NEW b, b \in LegalAt(LastTag(Remote)),
         wire' = [wire EXCEPT ![Remote] = Append(@, b)],
         LastTag(Remote)' = NextTag(LastTag(Remote), b),
         NextTag(LastTag(Remote), b) \in {"Normal", "IAC"},
         UNCHANGED <<ourState, theirState, state>>
  PROVE  NotQueued' /\ Negotiated'
<1> DEFINE e == Remote
           f == Local
           z == NextTag(LastTag(e), b)
<1>1. PICK tag \in [T!Ends -> Seq(Tags)] :
        \A g \in T!Ends :
          /\ Tagged(wire[g], tag[g], Coarse(state[g]), LastTag(g))
          /\ BothAgree(ourState[g], theirState[g], ourState[T!Peer(g)], theirState[T!Peer(g)],
                       tag[g], tag[T!Peer(g)])
  BY DEF Negotiated
<1>2. e \in T!Ends /\ f \in T!Ends /\ f # e /\ f = T!Peer(e)
  BY TwoEnds
<1>3. tag[e] \in Seq(Tags) /\ tag[f] \in Seq(Tags)
  BY <1>2
<1>4. Tagged(wire'[e], Append(tag[e], z), Coarse(state'[e]), LastTag(e)')
  <2>1. Tagged(wire[e], tag[e], Coarse(state[e]), LastTag(e))
    BY <1>1, <1>2
  <2>2. wire'[e] = Append(wire[e], b)
    BY <1>2 DEF TelnetType, T!TypeOK
  <2>3. QED
    BY <2>1, <2>2, TaggedByte
<1>5. Tagged(wire'[f], tag[f], Coarse(state'[f]), LastTag(f)')
  <2>1. LastTag(f)' = LastTag(f)
    BY <1>2 DEF LastTag
  <2>2. wire'[f] = wire[f]
    BY <1>2 DEF TelnetType, T!TypeOK
  <2>3. QED
    BY <1>1, <1>2, <2>1, <2>2
<1>6. BothAgree(ourState'[e], theirState'[e], ourState'[f], theirState'[f],
                Append(tag[e], z), tag[f])
  <2>1. BothAgree(ourState[e], theirState[e], ourState[f], theirState[f], tag[e], tag[f])
    BY <1>1, <1>2
  <2>2. Alike(tag[e], Append(tag[e], z)) /\ Alike(tag[f], tag[f])
    BY <1>3, AppendAlike, SameIsAlike
  <2>3. QED
    BY <2>1, <2>2, BothAlike
<1>7. Append(tag[e], z) \in Seq(Tags)
  BY <1>4 DEF Tagged
<1>8. Negotiated'
  <2> HIDE DEF z
  <2>1. QED
    BY <1>2, <1>3, <1>4, <1>5, <1>6, <1>7, NegotiatedBy
<1>9. QED
  BY <1>8 DEF NotQueued

LEMMA StepAgree == ASSUME TelnetType, AgreeInv, [T!TelnetNext]_(T!telnetVars) PROVE AgreeInv'
<1> SUFFICES ASSUME ~T!Requeued' PROVE NotQueued' /\ Negotiated'
  BY DEF AgreeInv
<1>1. NotQueued /\ Negotiated
  BY RequeuedStays DEF AgreeInv
<1>2. ASSUME NEW e \in T!Ends, T!ReadByte(e) PROVE NotQueued' /\ Negotiated'
  BY <1>1, <1>2, ReadAgrees, OptionAgrees DEF T!ReadByte
<1>3. ASSUME NEW e \in T!Ends, NEW c \in T!Requests, T!Ask(e, c) PROVE NotQueued' /\ Negotiated'
  BY <1>1, <1>3, AskAgrees
<1>4. ASSUME NEW b \in T!Data, T!Write(b) PROVE NotQueued' /\ Negotiated'
  <2>1. /\ second = << >> /\ UNCHANGED <<ourState, theirState, state>>
        /\ wire' = [wire EXCEPT ![Remote] = Append(@, b)]
        /\ (second' = <<"IAC">>) <=> (b = "IAC")
    BY <1>4 DEF T!Write
  <2>2. /\ LastTag(Remote) = "Normal"
        /\ LastTag(Remote)' = NextTag(LastTag(Remote), b)
        /\ LastTag(Remote)' \in {"Normal", "IAC"}
    BY <2>1 DEF LastTag, NextTag
  <2>3. b \in LegalAt(LastTag(Remote))
    BY <2>2 DEF LegalAt
  <2>4. QED
    BY <1>1, <2>1, <2>2, <2>3, ByteAgrees
<1>5. CASE T!WriteSecond
  <2>1. PICK b \in {"NUL", "IAC"} : second = <<b>>
    BY <1>5 DEF T!WriteSecond, TelnetType
  <2>2. /\ second' = << >> /\ UNCHANGED <<ourState, theirState, state>>
        /\ wire' = [wire EXCEPT ![Remote] = Append(@, b)]
    <3>1. wire[Remote] \in Seq(Bytes) /\ b \in Bytes
      BY TwoEnds DEF TelnetType, T!TypeOK, Bytes, T!Data
    <3>2. wire[Remote] \o <<b>> = Append(wire[Remote], b)
      BY <3>1
    <3>3. QED
      BY <1>5, <2>1, <3>2 DEF T!WriteSecond
  <2>3. /\ LastTag(Remote) = IF b = "IAC" THEN "IAC" ELSE "Normal"
        /\ LastTag(Remote)' = "Normal"
    BY <2>1, <2>2 DEF LastTag
  <2>4. NextTag(LastTag(Remote), b) = "Normal" /\ b \in LegalAt(LastTag(Remote))
    BY <2>3 DEF NextTag, LegalAt, T!Requests, T!Data
  <2>5. QED
    BY <1>1, <2>2, <2>3, <2>4, ByteAgrees
<1>6. CASE UNCHANGED T!telnetVars
  BY <1>1, <1>6 DEF T!telnetVars, NotQueued, Negotiated, LastTag
<1>7. QED
  BY <1>2, <1>3, <1>4, <1>5, <1>6 DEF T!TelnetNext

\* When the wires are empty there is no command left, and the ends agree.
LEMMA QuietAgrees == TelnetType /\ AgreeInv => T!QuietIsAgreed
<1> SUFFICES ASSUME TelnetType, NotQueued, Negotiated, T!Quiet, NEW e \in T!Ends
             PROVE  /\ ourState[e] \in {"IsNo", "IsYes"} /\ theirState[e] \in {"IsNo", "IsYes"}
                    /\ ourState[e] = theirState[T!Peer(e)]
  BY DEF AgreeInv, T!QuietIsAgreed
<1> DEFINE f == T!Peer(e)
<1>1. PICK tag \in [T!Ends -> Seq(Tags)] :
        \A g \in T!Ends :
          /\ Tagged(wire[g], tag[g], Coarse(state[g]), LastTag(g))
          /\ BothAgree(ourState[g], theirState[g], ourState[T!Peer(g)], theirState[T!Peer(g)],
                       tag[g], tag[T!Peer(g)])
  BY DEF Negotiated
<1>2. f \in T!Ends
  BY TwoEnds
<1>3. ASSUME NEW g \in T!Ends, NEW c \in T!Requests PROVE ~Has(tag[g], c)
  <2>1. wire[g] = << >> /\ LastTag(g) = "Normal"
    BY DEF T!Quiet, LastTag
  <2>2. Tagged(<< >>, tag[g], Coarse(state[g]), "Normal")
    BY <1>1, <2>1
  <2>3. tag[g] \in Seq(Tags) /\ Len(tag[g]) = 1 /\ tag[g][1] = "Normal"
    BY <2>2 DEF Tagged
  <2>4. QED
    BY <2>3 DEF Has, T!Requests
<1>4. /\ ourState[e] \in T!Option /\ theirState[e] \in T!Option
      /\ ourState[f] \in T!Option /\ theirState[f] \in T!Option
  BY <1>2 DEF TelnetType, T!TypeOK
<1>5. ASSUME NEW g \in T!Ends, NEW c \in T!Requests, NEW d \in T!Requests
      PROVE  ~Closes(tag[g], c, d) /\ ~Follows(tag[g], c, d)
  BY <1>3 DEF Has, Closes, Follows
<1>6. BothAgree(ourState[e], theirState[e], ourState[f], theirState[f], tag[e], tag[f])
  BY <1>1
<1>7. ASSUME NEW a \in T!Option, NEW b \in T!Option,
             NEW c \in T!Requests, NEW d \in T!Requests, NEW g \in T!Requests, NEW h \in T!Requests,
             Agree(a, b, tag[e], c, d, tag[f], g, h)
      PROVE  a \in {"IsNo", "IsYes"} /\ a = b
  BY <1>2, <1>3, <1>5, <1>7 DEF Agree, Pending, Disabling, Enabling, T!Option
<1>8. QED
  BY <1>4, <1>6, <1>7 DEF BothAgree, T!Requests

-----------------------------------------------------------------------------
(* The data.  A point is where the reader will be when it has read up to   *)
(* some byte of its wire: its state, its idea of the mode of the writer,   *)
(* and how many bytes it will have delivered.                              *)

Modes  == {"text", "binary"}
States == {"Normal", "CarriageReturn", "IAC"} \cup T!Requests
Points == [st : States, mode : Modes, n : Nat]

Delivers(at, b) ==
  IF at.st = "IAC" THEN b = "IAC"
  ELSE at.st \in {"Normal", "CarriageReturn"} /\ b # "IAC" /\ ~(at.st = "CarriageReturn" /\ b = "NUL")

NextState(at, b) ==
  IF at.st = "IAC" THEN IF b \in T!Requests THEN b ELSE "Normal"
  ELSE IF at.st \in T!Requests \/ (at.st = "CarriageReturn" /\ b = "NUL") THEN "Normal"
  ELSE IF b = "IAC" THEN "IAC"
  ELSE IF b = "CR" /\ at.mode = "text" THEN "CarriageReturn" ELSE "Normal"

NextMode(at, b) == IF at.st = "WILL" /\ b = "NUL" THEN "binary"
                   ELSE IF at.st = "WONT" /\ b = "NUL" THEN "text" ELSE at.mode

NextPoint(at, b) == [st   |-> NextState(at, b),
                     mode |-> NextMode(at, b),
                     n    |-> IF Delivers(at, b) THEN at.n + 1 ELSE at.n]

\* What is delivered is the next byte of the data.
IsNext(at, b, data) == Delivers(at, b) => at.n + 1 \in 1 .. Len(data) /\ data[at.n + 1] = b

\* p has the point before every byte, and one more for the byte to be sent next.
Traced(bytes, p, first, last, data) ==
  /\ bytes \in Seq(Bytes) /\ p \in Seq(Points) /\ Len(p) = Len(bytes) + 1
  /\ p[1] = first /\ p[Len(p)] = last
  /\ \A i \in 1 .. Len(bytes) : p[i + 1] = NextPoint(p[i], bytes[i]) /\ IsNext(p[i], bytes[i], data)

LEMMA NextIsPoint == ASSUME NEW at \in Points, NEW b \in Bytes PROVE NextPoint(at, b) \in Points
<1>1. NextState(at, b) \in States
  BY DEF NextState, States, T!Requests
<1>2. NextMode(at, b) \in Modes
  BY DEF NextMode, Modes, Points
<1>3. QED
  BY <1>1, <1>2 DEF NextPoint, Points

LEMMA TracedByte ==
  ASSUME NEW q, NEW p, NEW first, NEW last, NEW data, Traced(q, p, first, last, data),
         NEW b \in Bytes, IsNext(last, b, data), NEW z, z = NextPoint(last, b)
  PROVE  Traced(Append(q, b), Append(p, z), first, z, data)
<1> DEFINE r == Append(q, b)
           u == Append(p, z)
<1>1. q \in Seq(Bytes) /\ p \in Seq(Points) /\ Len(p) = Len(q) + 1 /\ last \in Points
  BY DEF Traced
<1>2. z \in Points
  BY <1>1, NextIsPoint
<1>3. /\ r \in Seq(Bytes) /\ u \in Seq(Points) /\ Len(r) = Len(q) + 1 /\ Len(u) = Len(p) + 1
      /\ \A i \in 1 .. Len(q) : r[i] = q[i] /\ u[i] = p[i]
      /\ r[Len(q) + 1] = b /\ u[Len(p)] = p[Len(p)] /\ u[Len(p) + 1] = z
  BY <1>1, <1>2
<1>4. \A i \in 1 .. Len(q) : u[i + 1] = p[i + 1]
  BY <1>1, <1>2
<1>5. u[1] = first /\ u[Len(u)] = z
  BY <1>1, <1>3 DEF Traced
<1>6. \A i \in 1 .. Len(r) : u[i + 1] = NextPoint(u[i], r[i]) /\ IsNext(u[i], r[i], data)
  <2>1. \A i \in 1 .. Len(q) : u[i + 1] = NextPoint(u[i], r[i]) /\ IsNext(u[i], r[i], data)
    BY <1>3, <1>4 DEF Traced
  <2>2. u[Len(r) + 1] = NextPoint(u[Len(r)], r[Len(r)]) /\ IsNext(u[Len(r)], r[Len(r)], data)
    BY <1>1, <1>3 DEF Traced
  <2>3. QED
    BY <1>1, <1>3, <2>1, <2>2
<1>7. QED
  BY <1>1, <1>3, <1>5, <1>6 DEF Traced

LEMMA TracedTail ==
  ASSUME NEW q, NEW p, NEW first, NEW last, NEW data, Traced(q, p, first, last, data), q # << >>
  PROVE  /\ IsNext(first, Head(q), data)
         /\ Traced(Tail(q), Tail(p), NextPoint(first, Head(q)), last, data)
<1> DEFINE r == Tail(q)
           u == Tail(p)
<1>1. q \in Seq(Bytes) /\ p \in Seq(Points) /\ Len(p) = Len(q) + 1 /\ Len(q) > 0
  BY DEF Traced
<1>2. /\ r \in Seq(Bytes) /\ u \in Seq(Points) /\ Len(r) = Len(q) - 1 /\ Len(u) = Len(p) - 1
      /\ \A i \in 1 .. Len(r) : r[i] = q[i + 1]
      /\ \A i \in 1 .. Len(u) : u[i] = p[i + 1]
      /\ Head(q) = q[1]
  BY <1>1
<1> HIDE DEF r, u
<1>3. IsNext(first, q[1], data) /\ u[1] = NextPoint(first, q[1]) /\ u[Len(u)] = last
  BY <1>1, <1>2 DEF Traced
<1>4. \A i \in 1 .. Len(r) : u[i + 1] = NextPoint(u[i], r[i]) /\ IsNext(u[i], r[i], data)
  <2> TAKE i \in 1 .. Len(r)
  <2>1. i + 1 \in 1 .. Len(q) /\ i \in 1 .. Len(u) /\ i + 1 \in 1 .. Len(u)
    BY <1>1, <1>2
  <2>2. r[i] = q[i + 1] /\ u[i] = p[i + 1] /\ u[i + 1] = p[i + 1 + 1]
    BY <1>2, <2>1
  <2>3. QED
    BY <2>1, <2>2 DEF Traced
<1>5. QED
  BY <1>1, <1>2, <1>3, <1>4 DEF Traced, r, u

\* More data does not matter to what is on the wire.
LEMMA TracedMore ==
  ASSUME NEW q, NEW p, NEW first, NEW last, NEW data \in Seq(Bytes),
         Traced(q, p, first, last, data), NEW x \in Bytes
  PROVE  Traced(q, p, first, last, Append(data, x))
<1>1. /\ Len(Append(data, x)) = Len(data) + 1 /\ Len(data) \in Nat
      /\ \A i \in 1 .. Len(data) : Append(data, x)[i] = data[i]
  OBVIOUS
<1>2. ASSUME NEW at, NEW b, IsNext(at, b, data) PROVE IsNext(at, b, Append(data, x))
  BY <1>1, <1>2 DEF IsNext
<1>3. QED
  BY <1>2 DEF Traced

\* A command of three bytes.
LEMMA TracedCommand ==
  ASSUME NEW q, NEW p, NEW first, NEW last, NEW data, Traced(q, p, first, last, data),
         last.st = "Normal", NEW c \in T!Requests, NEW b \in Bytes,
         NEW next, next = [last EXCEPT !.mode = IF b # "NUL" THEN @
                                                ELSE IF c = "WILL" THEN "binary"
                                                ELSE IF c = "WONT" THEN "text" ELSE @]
  PROVE  \E u : Traced(q \o <<"IAC", c, b>>, u, first, next, data)
<1> DEFINE p1 == NextPoint(last, "IAC")
           p2 == NextPoint(p1, c)
           p3 == NextPoint(p2, b)
<1>1. last \in Points /\ "IAC" \in Bytes /\ c \in Bytes /\ c # "IAC"
  BY DEF Traced, Bytes, T!Data, T!Requests
<1>2. p1.st = "IAC" /\ p1.mode = last.mode /\ p1.n = last.n /\ ~Delivers(last, "IAC")
  BY DEF NextPoint, NextState, NextMode, Delivers, T!Requests
<1> HIDE DEF p1
<1>3. p2.st = c /\ p2.mode = last.mode /\ p2.n = last.n /\ ~Delivers(p1, c)
  BY <1>1, <1>2 DEF NextPoint, NextState, NextMode, Delivers
<1> HIDE DEF p2
<1>4. ~Delivers(p2, b)
  BY <1>3 DEF Delivers, T!Requests
<1>5. p3 = next
  <2>1. NextState(p2, b) = "Normal"
    BY <1>3 DEF NextState, T!Requests
  <2>2. NextMode(p2, b) = IF b # "NUL" THEN last.mode ELSE IF c = "WILL" THEN "binary"
                          ELSE IF c = "WONT" THEN "text" ELSE last.mode
    BY <1>3 DEF NextMode
  <2>3. QED
    BY <1>1, <1>3, <1>4, <2>1, <2>2 DEF NextPoint, Points
<1> HIDE DEF p3
<1>6. Traced(Append(q, "IAC"), Append(p, p1), first, p1, data)
  BY <1>1, <1>2, TracedByte DEF IsNext, p1
<1>7. Traced(Append(Append(q, "IAC"), c), Append(Append(p, p1), p2), first, p2, data)
  BY <1>1, <1>3, <1>6, TracedByte DEF IsNext, p2
<1>8. Traced(Append(Append(Append(q, "IAC"), c), b), Append(Append(Append(p, p1), p2), p3),
             first, p3, data)
  BY <1>4, <1>7, TracedByte DEF IsNext, p3
<1>9. q \o <<"IAC", c, b>> = Append(Append(Append(q, "IAC"), c), b)
  <2>1. q \in Seq(Bytes)
    BY DEF Traced
  <2>2. QED
    BY <1>1, <2>1
<1>10. QED
  BY <1>5, <1>8, <1>9

Mode(s) == IF s = "IsYes" THEN "binary" ELSE "text"

FirstPoint == [st |-> state[Remote], mode |-> Mode(theirState[Remote]), n |-> Len(received)]

LastPoint == [st   |-> IF second = <<"IAC">> THEN "IAC"
                       ELSE IF second = <<"NUL">> THEN "CarriageReturn" ELSE "Normal",
              mode |-> Mode(ourState[Local]),
              n    |-> IF second = <<"IAC">> THEN Len(written) - 1 ELSE Len(written)]

\* The writer is not asked to enable its option, nor the reader to have it disabled.
ModesInStep == /\ ourState[Local] \in {"IsNo", "IsYes", "WantNo"}
               /\ theirState[Remote] \in {"IsNo", "IsYes", "WantYes"}

HalfWritten == second = <<"IAC">> => Len(written) > 0 /\ written[Len(written)] = "IAC"

ReadSoFar == /\ Len(received) <= Len(written)
             /\ \A i \in 1 .. Len(received) : received[i] = written[i]

OnItsWay == \E p : Traced(wire[Remote], p, FirstPoint, LastPoint, written)

DataIsThere == ModesInStep /\ HalfWritten /\ ReadSoFar /\ OnItsWay

DataInv == T!InStep => DataIsThere

LEMMA InitData == T!TelnetInit => DataInv
<1> SUFFICES ASSUME T!TelnetInit PROVE DataIsThere
  BY DEF DataInv
<1>1. /\ wire[Remote] = << >> /\ ourState[Local] = "IsNo" /\ theirState[Remote] = "IsNo"
      /\ state[Remote] = "Normal" /\ second = << >> /\ written = << >> /\ received = << >>
  BY TwoEnds DEF T!TelnetInit
<1>2. FirstPoint = LastPoint /\ FirstPoint \in Points
  BY <1>1 DEF FirstPoint, LastPoint, Mode, Points, Modes, States
<1>3. Traced(wire[Remote], <<FirstPoint>>, FirstPoint, LastPoint, written)
  BY <1>1, <1>2 DEF Traced
<1>4. QED
  BY <1>1, <1>3 DEF DataIsThere, ModesInStep, HalfWritten, ReadSoFar, OnItsWay

LEMMA InStepWas ==
  ASSUME TelnetType, [T!TelnetNext]_(T!telnetVars), T!InStep' PROVE T!InStep
<1>1. asked' = asked \/ \E z : asked' = Append(asked, z)
  BY DEF T!TelnetNext, T!telnetVars, T!ReadByte, T!Write, T!WriteSecond, T!Ask
<1>2. ASSUME NEW z, asked' = Append(asked, z), NEW i \in DOMAIN asked
      PROVE  i \in DOMAIN asked' /\ asked'[i] = asked[i]
  BY <1>2 DEF TelnetType
<1>3. QED
  BY <1>1, <1>2 DEF T!InStep

\* What the points of the connection are.
LEMMA PointsOfState ==
  ASSUME TelnetType, HalfWritten
  PROVE  FirstPoint \in Points /\ LastPoint \in Points
BY TwoEnds DEF TelnetType, T!TypeOK, HalfWritten, FirstPoint, LastPoint, Mode, Points, Modes, States

LEMMA AskKeepsData ==
  ASSUME TelnetType, DataIsThere, T!InStep',
         NEW e \in T!Ends, NEW c \in T!Requests, T!Ask(e, c)
  PROVE  DataIsThere'
<1> DEFINE answer == T!Asking(e, c)
<1>1. <<e, c>> \in {<<Remote, "DO">>, <<Local, "WONT">>}
  <2> DEFINE z == [by |-> e, what |-> c, found |-> IF c \in {"WILL", "WONT"} THEN ourState[e]
                                                   ELSE theirState[e]]
  <2>1. asked' = Append(asked, z) /\ z.by = e /\ z.what = c
    BY DEF T!Ask
  <2> HIDE DEF z
  <2>2. asked \in Seq(Asked)
    BY DEF TelnetType
  <2>3. Len(asked) + 1 \in DOMAIN asked' /\ asked'[Len(asked) + 1] = z
    BY <2>1, <2>2
  <2>4. QED
    BY <2>1, <2>3 DEF T!InStep
<1>2. /\ T!SetOption(e, c \in {"WILL", "WONT"}, answer[1])
      /\ wire' = [wire EXCEPT ![T!Peer(e)] = @ \o T!Sent(answer[2], "NUL")]
      /\ UNCHANGED <<state, second, written, received>>
      /\ e = Local => second = << >>
  BY DEF T!Ask
<1>3. CASE e = Remote /\ c = "DO"
  <2>1. wire'[Remote] = wire[Remote]
    BY <1>2, <1>3, TwoEnds DEF TelnetType, T!TypeOK
  <2>2. /\ ourState' = ourState
        /\ theirState'[Remote] \in {"IsNo", "IsYes", "WantYes"}
        /\ Mode(theirState'[Remote]) = Mode(theirState[Remote])
    <3>1. theirState'[Remote] = answer[1] /\ ourState' = ourState
      BY <1>2, <1>3 DEF T!SetOption, TelnetType, T!TypeOK
    <3>2. answer = T!AskYes(theirState[Remote], "DO")
      BY <1>3 DEF T!Asking
    <3>3. QED
      BY <3>1, <3>2 DEF T!AskYes, Mode, DataIsThere, ModesInStep
  <2>3. FirstPoint' = FirstPoint /\ LastPoint' = LastPoint
    BY <1>2, <2>2 DEF FirstPoint, LastPoint
  <2>4. QED
    BY <1>2, <2>1, <2>2, <2>3 DEF DataIsThere, ModesInStep, HalfWritten, ReadSoFar, OnItsWay
<1>4. CASE e = Local /\ c = "WONT"
  <2>1. /\ second = << >> /\ theirState' = theirState /\ ourState'[Local] = answer[1]
        /\ wire'[Remote] = wire[Remote] \o T!Sent(answer[2], "NUL")
    BY <1>2, <1>4, TwoEnds DEF T!SetOption, TelnetType, T!TypeOK, T!Peer
  <2>2. FirstPoint' = FirstPoint
    BY <1>2, <2>1 DEF FirstPoint
  <2>3. answer = T!AskNo(ourState[Local], "WONT")
    BY <1>4 DEF T!Asking
  <2>4. PICK p : Traced(wire[Remote], p, FirstPoint, LastPoint, written)
    BY DEF DataIsThere, OnItsWay
  <2>5. CASE ourState[Local] = "IsYes"
    <3>1. answer[1] = "WantNo" /\ T!Sent(answer[2], "NUL") = <<"IAC", "WONT", "NUL">>
      BY <2>3, <2>5 DEF T!AskNo, T!Sent
    <3>2. LastPoint' = [LastPoint EXCEPT !.mode = "text"] /\ LastPoint.st = "Normal"
      BY <1>2, <2>1, <2>5, <3>1 DEF LastPoint, Mode
    <3>3. \E u : Traced(wire'[Remote], u, FirstPoint, LastPoint', written)
      <4>1. "WONT" \in T!Requests /\ "NUL" \in Bytes
        BY DEF T!Requests, Bytes, T!Data
      <4>2. QED
        BY <2>1, <2>4, <3>1, <3>2, <4>1, TracedCommand
    <3>4. QED
      BY <1>2, <2>1, <2>2, <3>1, <3>3 DEF DataIsThere, ModesInStep, HalfWritten, ReadSoFar, OnItsWay
  <2>6. CASE ourState[Local] # "IsYes"
    <3>1. answer[1] = "IsNo" /\ T!Sent(answer[2], "NUL") = << >>
      BY <2>3, <2>6 DEF T!AskNo, T!Sent, DataIsThere, ModesInStep
    <3>2. LastPoint' = LastPoint
      BY <1>2, <2>1, <2>6, <3>1 DEF LastPoint, Mode
    <3>3. wire'[Remote] = wire[Remote]
      BY <2>1, <3>1, TwoEnds DEF TelnetType, T!TypeOK
    <3>4. QED
      BY <1>2, <2>1, <2>2, <2>4, <3>1, <3>2, <3>3
         DEF DataIsThere, ModesInStep, HalfWritten, ReadSoFar, OnItsWay
  <2>7. QED
    BY <2>5, <2>6
<1>5. QED
  BY <1>1, <1>3, <1>4

\* The reader reads a byte: it gets to the next point, and what it delivers is the
\* next of the data.
LEMMA ReaderKeepsData ==
  ASSUME TelnetType, DataIsThere, T!ReadByte(Remote)
  PROVE  DataIsThere'
<1> DEFINE b == Head(wire[Remote])
           c == state[Remote]
<1>1. PICK p : Traced(wire[Remote], p, FirstPoint, LastPoint, written)
  BY DEF DataIsThere, OnItsWay
<1>2. /\ wire[Remote] # << >> /\ UNCHANGED <<second, written>>
      /\ T!ReadData(Remote, b) \/ T!DropNull(Remote, b) \/ T!ReadAfterIAC(Remote, b)
           \/ T!ReadOption(Remote, b)
  BY DEF T!ReadByte
<1>3. /\ wire[Remote] \in Seq(Bytes) /\ b \in Bytes /\ received \in Seq(Bytes)
      /\ written \in Seq(T!Data) /\ Local \in T!Ends /\ Remote \in T!Ends /\ Local # Remote
      /\ T!Peer(Remote) = Local /\ FirstPoint \in Points
  BY <1>2, TwoEnds, PointsOfState DEF TelnetType, T!TypeOK, Bytes, DataIsThere, T!Peer
<1>4. /\ IsNext(FirstPoint, b, written)
      /\ Traced(Tail(wire[Remote]), Tail(p), NextPoint(FirstPoint, b), LastPoint, written)
  BY <1>1, <1>2, TracedTail
<1>5. wire'[Remote] = Tail(wire[Remote])
  BY <1>2, <1>3 DEF T!ReadData, T!DropNull, T!ReadAfterIAC, T!ReadOption, T!Take, TelnetType,
                    T!TypeOK
<1>6. received' = IF Delivers(FirstPoint, b) THEN Append(received, b) ELSE received
  <2>1. CASE T!ReadData(Remote, b) \/ T!DropNull(Remote, b) \/ T!ReadAfterIAC(Remote, b)
    BY <2>1 DEF T!ReadData, T!DropNull, T!ReadAfterIAC, T!Deliver, Delivers, FirstPoint
  <2>2. CASE T!ReadOption(Remote, b)
    BY <2>2 DEF T!ReadOption, Delivers, FirstPoint, T!Requests
  <2>3. QED
    BY <1>2, <2>1, <2>2
<1>7. state'[Remote] = NextState(FirstPoint, b)
  <2>1. CASE T!ReadData(Remote, b)
    BY <1>3, <2>1 DEF T!ReadData, NextState, FirstPoint, Mode, TelnetType, T!TypeOK, T!Requests
  <2>2. CASE T!DropNull(Remote, b)
    BY <1>3, <2>2 DEF T!DropNull, NextState, FirstPoint, TelnetType, T!TypeOK
  <2>3. CASE T!ReadAfterIAC(Remote, b)
    BY <1>3, <2>3 DEF T!ReadAfterIAC, NextState, FirstPoint, TelnetType, T!TypeOK
  <2>4. CASE T!ReadOption(Remote, b)
    BY <1>3, <2>4 DEF T!ReadOption, NextState, FirstPoint, TelnetType, T!TypeOK, T!Requests
  <2>5. QED
    BY <1>2, <2>1, <2>2, <2>3, <2>4
<1>8. /\ Mode(theirState'[Remote]) = NextMode(FirstPoint, b)
      /\ theirState'[Remote] \in {"IsNo", "IsYes", "WantYes"}
      /\ ourState'[Local] = ourState[Local]
  <2>1. theirState[Remote] \in {"IsNo", "IsYes", "WantYes"}
    BY DEF DataIsThere, ModesInStep
  <2>2. CASE T!ReadData(Remote, b) \/ T!DropNull(Remote, b) \/ T!ReadAfterIAC(Remote, b)
    <3>1. UNCHANGED <<ourState, theirState>> /\ c \notin {"WILL", "WONT"}
      BY <2>2 DEF T!ReadData, T!DropNull, T!ReadAfterIAC, T!Keep
    <3>2. QED
      BY <2>1, <3>1 DEF NextMode, FirstPoint
  <2>3. CASE T!ReadOption(Remote, b) /\ b # "NUL"
    <3>1. UNCHANGED <<ourState, theirState>>
      BY <2>3 DEF T!ReadOption, T!Keep
    <3>2. QED
      BY <2>1, <2>3, <3>1 DEF NextMode, FirstPoint
  <2>4. CASE T!ReadOption(Remote, b) /\ b = "NUL"
    <3>1. c \in T!Requests /\ T!SetOption(Remote, c \in {"DO", "DONT"}, T!Answering(Remote, c)[1])
      BY <2>4 DEF T!ReadOption
    <3>2. ourState'[Local] = ourState[Local]
      BY <1>3, <3>1 DEF T!SetOption, TelnetType, T!TypeOK
    <3>3. CASE c \in {"DO", "DONT"}
      BY <2>1, <3>1, <3>2, <3>3 DEF T!SetOption, NextMode, FirstPoint
    <3>4. CASE c = "WILL"
      <4>1. theirState'[Remote] = T!OnYes(theirState[Remote], TRUE, "DO", "DONT")[1]
        BY <1>3, <3>1, <3>4 DEF T!SetOption, T!Answering, TelnetType, T!TypeOK
      <4>2. theirState'[Remote] = "IsYes"
        BY <2>1, <4>1 DEF T!OnYes
      <4>3. QED
        BY <2>4, <3>2, <3>4, <4>2 DEF NextMode, FirstPoint, Mode
    <3>5. CASE c = "WONT"
      <4>1. theirState'[Remote] = T!OnNo(theirState[Remote], "DONT")[1]
        BY <1>3, <3>1, <3>5 DEF T!SetOption, T!Answering, TelnetType, T!TypeOK
      <4>2. theirState'[Remote] = "IsNo"
        BY <2>1, <4>1 DEF T!OnNo
      <4>3. QED
        BY <2>4, <3>2, <3>5, <4>2 DEF NextMode, FirstPoint, Mode
    <3>6. QED
      BY <3>1, <3>3, <3>4, <3>5 DEF T!Requests
  <2>5. QED
    BY <1>2, <2>2, <2>3, <2>4
<1>9. FirstPoint' = NextPoint(FirstPoint, b)
  <2>1. Len(received') = IF Delivers(FirstPoint, b) THEN Len(received) + 1 ELSE Len(received)
    BY <1>3, <1>6
  <2>2. FirstPoint.n = Len(received)
    BY DEF FirstPoint
  <2>3. FirstPoint' = [st |-> state'[Remote], mode |-> Mode(theirState'[Remote]),
                       n |-> Len(received')]
    BY DEF FirstPoint, Mode
  <2>4. QED
    BY <1>7, <1>8, <2>1, <2>2, <2>3 DEF NextPoint
<1>10. LastPoint' = LastPoint
  BY <1>2, <1>8 DEF LastPoint, Mode
<1>11. OnItsWay'
  BY <1>2, <1>4, <1>5, <1>9, <1>10 DEF OnItsWay
<1>12. ReadSoFar'
  <2>1. CASE ~Delivers(FirstPoint, b)
    BY <1>2, <1>6, <2>1 DEF DataIsThere, ReadSoFar
  <2>2. CASE Delivers(FirstPoint, b)
    <3>1. Len(received) + 1 \in 1 .. Len(written) /\ written[Len(received) + 1] = b
      BY <1>4, <2>2 DEF IsNext, FirstPoint
    <3>2. /\ Len(received') = Len(received) + 1 /\ received'[Len(received) + 1] = b
          /\ \A i \in 1 .. Len(received) : received'[i] = received[i]
      BY <1>3, <1>6, <2>2
    <3>3. Len(received) \in Nat /\ Len(written) \in Nat
      BY <1>3
    <3>4. QED
      BY <1>2, <3>1, <3>2, <3>3 DEF DataIsThere, ReadSoFar
  <2>3. QED
    BY <2>1, <2>2
<1>13. QED
  BY <1>2, <1>8, <1>11, <1>12 DEF DataIsThere, ModesInStep, HalfWritten

\* The writer reads: what it sends when its mode changes is a command that tells.
LEMMA WriterReadKeepsData ==
  ASSUME TelnetType, DataIsThere, T!ReadByte(Local)
  PROVE  DataIsThere'
<1> DEFINE b == Head(wire[Local])
           c == state[Local]
<1>1. PICK p : Traced(wire[Remote], p, FirstPoint, LastPoint, written)
  BY DEF DataIsThere, OnItsWay
<1>2. /\ wire[Local] # << >> /\ second = << >> /\ UNCHANGED <<second, written>>
      /\ T!ReadData(Local, b) \/ T!DropNull(Local, b) \/ T!ReadAfterIAC(Local, b)
           \/ T!ReadOption(Local, b)
  BY DEF T!ReadByte
<1>3. /\ wire[Local] \in Seq(Bytes) /\ b \in Bytes /\ wire[Remote] \in Seq(Bytes)
      /\ Local \in T!Ends /\ Remote \in T!Ends /\ Local # Remote
      /\ T!Peer(Local) = Remote /\ LastPoint \in Points /\ LastPoint.st = "Normal"
  BY <1>2, TwoEnds, PointsOfState DEF TelnetType, T!TypeOK, Bytes, DataIsThere, T!Peer, LastPoint
<1>4. received' = received /\ state'[Remote] = state[Remote]
  BY <1>2, <1>3 DEF T!ReadData, T!DropNull, T!ReadAfterIAC, T!ReadOption, T!Deliver, TelnetType,
                    T!TypeOK
<1>5. CASE T!ReadData(Local, b) \/ T!DropNull(Local, b) \/ T!ReadAfterIAC(Local, b)
  <2>1. UNCHANGED <<ourState, theirState>> /\ wire'[Remote] = wire[Remote]
    BY <1>3, <1>5 DEF T!ReadData, T!DropNull, T!ReadAfterIAC, T!Keep, T!Take, TelnetType, T!TypeOK
  <2>2. FirstPoint' = FirstPoint /\ LastPoint' = LastPoint
    BY <1>2, <1>4, <2>1 DEF FirstPoint, LastPoint
  <2>3. QED
    BY <1>2, <1>4, <2>1, <2>2 DEF DataIsThere, ModesInStep, HalfWritten, ReadSoFar, OnItsWay
<1>6. CASE T!ReadOption(Local, b)
  <2> DEFINE other == CASE c = "DO" -> <<"WONT">> [] c = "WILL" -> <<"DONT">> [] OTHER -> << >>
             answer == IF b = "NUL" THEN T!Answering(Local, c) ELSE <<"none", other>>
  <2>1. /\ c \in T!Requests
        /\ IF b = "NUL" THEN T!SetOption(Local, c \in {"DO", "DONT"}, answer[1]) ELSE T!Keep
        /\ wire'[Remote] = wire[Remote] \o T!Sent(answer[2], b)
    BY <1>3, <1>6 DEF T!ReadOption, TelnetType, T!TypeOK
  <2>2. ourState[Local] \in {"IsNo", "IsYes", "WantNo"}
    BY DEF DataIsThere, ModesInStep
  \* The mode of the writer, and the command that tells of a change.
  <2> DEFINE mode == IF b = "NUL" /\ answer[2] = <<"WILL">> THEN "binary"
                     ELSE IF b = "NUL" /\ answer[2] = <<"WONT">> THEN "text" ELSE LastPoint.mode
  <2>3. /\ answer[2] \in {<< >>, <<"WILL">>, <<"WONT">>, <<"DO">>, <<"DONT">>}
        /\ ourState'[Local] \in {"IsNo", "IsYes", "WantNo"}
        /\ theirState'[Remote] = theirState[Remote]
        /\ Mode(ourState'[Local]) = mode
    <3>1. LastPoint.mode = Mode(ourState[Local])
      BY DEF LastPoint
    <3>2. CASE b # "NUL"
      BY <2>1, <2>2, <3>1, <3>2 DEF T!Keep
    <3>3. CASE b = "NUL" /\ c \in {"DO", "DONT"}
      <4>1. /\ answer = IF c = "DO" THEN T!OnYes(ourState[Local], TRUE, "WILL", "WONT")
                                    ELSE T!OnNo(ourState[Local], "WONT")
            /\ ourState'[Local] = answer[1] /\ theirState' = theirState
        BY <1>3, <2>1, <3>3 DEF T!Answering, T!SetOption, TelnetType, T!TypeOK
      <4>2. QED
        BY <2>2, <3>1, <3>3, <4>1 DEF T!OnYes, T!OnNo, Mode
    <3>4. CASE b = "NUL" /\ c \in {"WILL", "WONT"}
      <4>1. /\ answer = IF c = "WILL" THEN T!OnYes(theirState[Local], TRUE, "DO", "DONT")
                                      ELSE T!OnNo(theirState[Local], "DONT")
            /\ ourState' = ourState /\ theirState'[Remote] = theirState[Remote]
        BY <1>3, <2>1, <3>4 DEF T!Answering, T!SetOption, TelnetType, T!TypeOK
      <4>2. answer[2] \in {<< >>, <<"DO">>, <<"DONT">>}
        BY <4>1 DEF T!OnYes, T!OnNo
      <4>3. QED
        BY <2>2, <3>1, <4>1, <4>2
    <3>5. QED
      BY <2>1, <3>2, <3>3, <3>4 DEF T!Requests
  <2> HIDE DEF answer, mode
  <2>4. FirstPoint' = FirstPoint /\ LastPoint' = [LastPoint EXCEPT !.mode = mode]
    BY <1>2, <1>4, <2>3 DEF FirstPoint, LastPoint
  <2>5. \E u : Traced(wire'[Remote], u, FirstPoint, LastPoint', written)
    <3>1. CASE answer[2] = << >>
      <4>1. wire'[Remote] = wire[Remote]
        BY <1>3, <2>1, <3>1 DEF T!Sent
      <4>2. LastPoint' = LastPoint
        BY <1>3, <2>4, <3>1 DEF mode, Points
      <4>3. QED
        BY <1>1, <4>1, <4>2
    <3>2. CASE answer[2] # << >>
      <4> DEFINE z == answer[2][1]
      <4>1. z \in T!Requests /\ wire'[Remote] = wire[Remote] \o <<"IAC", z, b>>
        BY <2>1, <2>3, <3>2 DEF T!Sent, T!Requests
      <4>2. LastPoint' = [LastPoint EXCEPT !.mode = IF b # "NUL" THEN @
                             ELSE IF z = "WILL" THEN "binary" ELSE IF z = "WONT" THEN "text" ELSE @]
        BY <1>3, <2>3, <2>4, <3>2 DEF mode, Points
      <4> HIDE DEF z, b
      <4>3. QED
        BY <1>1, <1>3, <4>1, <4>2, TracedCommand
    <3>3. QED
      BY <3>1, <3>2
  <2>6. QED
    BY <1>2, <1>4, <2>3, <2>4, <2>5 DEF DataIsThere, ModesInStep, HalfWritten, ReadSoFar, OnItsWay
<1>7. QED
  BY <1>2, <1>5, <1>6

LEMMA WriteKeepsData ==
  ASSUME TelnetType, DataIsThere, NEW b \in T!Data, T!Write(b)
  PROVE  DataIsThere'
<1>1. PICK p : Traced(wire[Remote], p, FirstPoint, LastPoint, written)
  BY DEF DataIsThere, OnItsWay
<1>2. /\ second = << >> /\ written' = Append(written, b) /\ wire'[Remote] = Append(wire[Remote], b)
      /\ second' = IF b = "IAC" THEN <<"IAC">>
                   ELSE IF b = "CR" /\ ourState[Local] # "IsYes" THEN <<"NUL">> ELSE << >>
      /\ UNCHANGED <<ourState, theirState, state, received>>
  BY TwoEnds DEF T!Write, TelnetType, T!TypeOK
<1>3. /\ written \in Seq(Bytes) /\ b \in Bytes /\ Len(written) \in Nat
      /\ Len(written') = Len(written) + 1 /\ written'[Len(written) + 1] = b
      /\ \A i \in 1 .. Len(written) : written'[i] = written[i]
  BY <1>2 DEF TelnetType, Bytes
<1>4. FirstPoint' = FirstPoint
  BY <1>2 DEF FirstPoint
<1>5. Traced(wire[Remote], p, FirstPoint, LastPoint, written')
  BY <1>1, <1>2, <1>3, TracedMore
<1>6. LastPoint.st = "Normal" /\ LastPoint.n = Len(written) /\ LastPoint.mode = Mode(ourState[Local])
  BY <1>2 DEF LastPoint
<1>7. LastPoint' = NextPoint(LastPoint, b)
  <2>1. Delivers(LastPoint, b) <=> b # "IAC"
    BY <1>6 DEF Delivers
  <2>2. NextState(LastPoint, b) = IF b = "IAC" THEN "IAC"
          ELSE IF b = "CR" /\ ourState[Local] # "IsYes" THEN "CarriageReturn" ELSE "Normal"
    BY <1>6 DEF NextState, Mode, T!Requests
  <2>3. NextMode(LastPoint, b) = Mode(ourState'[Local])
    BY <1>2, <1>6 DEF NextMode
  <2>4. LastPoint' = [st   |-> IF second' = <<"IAC">> THEN "IAC"
                               ELSE IF second' = <<"NUL">> THEN "CarriageReturn" ELSE "Normal",
                      mode |-> Mode(ourState'[Local]),
                      n    |-> IF second' = <<"IAC">> THEN Len(written') - 1 ELSE Len(written')]
    BY DEF LastPoint, Mode
  <2>5. CASE b = "IAC"
    BY <1>2, <1>3, <1>6, <2>1, <2>2, <2>3, <2>4, <2>5 DEF NextPoint
  <2>6. CASE b # "IAC"
    BY <1>2, <1>3, <1>6, <2>1, <2>2, <2>3, <2>4, <2>6 DEF NextPoint
  <2>7. QED
    BY <2>5, <2>6
<1>8. IsNext(LastPoint, b, written')
  BY <1>3, <1>6 DEF IsNext
<1>9. OnItsWay'
  BY <1>2, <1>3, <1>4, <1>5, <1>7, <1>8, TracedByte DEF OnItsWay
<1>10. ReadSoFar'
  <2>1. Len(received) \in Nat
    BY DEF TelnetType
  <2>2. QED
    BY <1>2, <1>3, <2>1 DEF DataIsThere, ReadSoFar
<1>11. HalfWritten'
  <2>1. second' = <<"IAC">> => b = "IAC"
    BY <1>2
  <2>2. Len(written') > 0 /\ written'[Len(written')] = b
    BY <1>3
  <2>3. QED
    BY <2>1, <2>2 DEF HalfWritten
<1>12. QED
  BY <1>2, <1>9, <1>10, <1>11 DEF DataIsThere, ModesInStep

LEMMA SecondKeepsData ==
  ASSUME TelnetType, DataIsThere, T!WriteSecond
  PROVE  DataIsThere'
<1>1. PICK p : Traced(wire[Remote], p, FirstPoint, LastPoint, written)
  BY DEF DataIsThere, OnItsWay
<1>2. PICK b \in {"NUL", "IAC"} : second = <<b>>
  BY DEF T!WriteSecond, TelnetType
<1>3. /\ wire'[Remote] = Append(wire[Remote], b) /\ second' = << >>
      /\ UNCHANGED <<ourState, theirState, state, received, written>>
  <2>1. wire[Remote] \in Seq(Bytes) /\ b \in Bytes
    BY TwoEnds DEF TelnetType, T!TypeOK, Bytes, T!Data
  <2>2. wire[Remote] \o <<b>> = Append(wire[Remote], b)
    BY <2>1
  <2>3. wire'[Remote] = wire[Remote] \o second
    BY TwoEnds DEF T!WriteSecond, TelnetType, T!TypeOK
  <2>4. QED
    BY <1>2, <2>2, <2>3 DEF T!WriteSecond
<1>4. FirstPoint' = FirstPoint
  BY <1>3 DEF FirstPoint
<1>5. Len(written) \in Nat /\ b \in Bytes
  BY DEF TelnetType, Bytes, T!Data
<1>6. /\ LastPoint.st = IF b = "IAC" THEN "IAC" ELSE "CarriageReturn"
      /\ LastPoint.mode = Mode(ourState[Local])
      /\ LastPoint.n = IF b = "IAC" THEN Len(written) - 1 ELSE Len(written)
  BY <1>2 DEF LastPoint
<1>7. LastPoint' = NextPoint(LastPoint, b)
  <2>1. Delivers(LastPoint, b) <=> b = "IAC"
    BY <1>2, <1>6 DEF Delivers
  <2>2. NextState(LastPoint, b) = "Normal" /\ NextMode(LastPoint, b) = Mode(ourState'[Local])
    BY <1>2, <1>3, <1>6 DEF NextState, NextMode, T!Requests
  <2>3. LastPoint' = [st |-> "Normal", mode |-> Mode(ourState'[Local]), n |-> Len(written')]
    BY <1>3 DEF LastPoint, Mode
  <2>4. QED
    BY <1>3, <1>5, <1>6, <2>1, <2>2, <2>3 DEF NextPoint
<1>8. IsNext(LastPoint, b, written)
  <2>1. CASE b = "IAC"
    BY <1>2, <1>5, <1>6, <2>1 DEF IsNext, DataIsThere, HalfWritten
  <2>2. CASE b = "NUL"
    BY <1>6, <2>2 DEF IsNext, Delivers
  <2>3. QED
    BY <2>1, <2>2
<1>9. OnItsWay'
  BY <1>1, <1>3, <1>4, <1>5, <1>7, <1>8, TracedByte DEF OnItsWay
<1>10. QED
  BY <1>3, <1>9 DEF DataIsThere, ModesInStep, HalfWritten, ReadSoFar

LEMMA StepData == ASSUME TelnetType, DataInv, [T!TelnetNext]_(T!telnetVars) PROVE DataInv'
<1> SUFFICES ASSUME T!InStep' PROVE DataIsThere'
  BY DEF DataInv
<1>1. DataIsThere
  BY InStepWas DEF DataInv
<1>2. ASSUME NEW e \in T!Ends, T!ReadByte(e) PROVE DataIsThere'
  <2>1. e = Local \/ e = Remote
    BY TwoEnds
  <2>2. QED
    BY <1>1, <1>2, <2>1, ReaderKeepsData, WriterReadKeepsData
<1>3. ASSUME NEW e \in T!Ends, NEW c \in T!Requests, T!Ask(e, c) PROVE DataIsThere'
  BY <1>1, <1>3, AskKeepsData
<1>4. ASSUME NEW b \in T!Data, T!Write(b) PROVE DataIsThere'
  BY <1>1, <1>4, WriteKeepsData
<1>5. CASE T!WriteSecond
  BY <1>1, <1>5, SecondKeepsData
<1>6. CASE UNCHANGED T!telnetVars
  BY <1>1, <1>6 DEF T!telnetVars, DataIsThere, ModesInStep, HalfWritten, ReadSoFar, OnItsWay,
                    FirstPoint, LastPoint
<1>7. QED
  BY <1>2, <1>3, <1>4, <1>5, <1>6 DEF T!TelnetNext

\* What is read is a prefix of what was written, and all of it when nothing is left.
LEMMA DataArrives == TelnetType /\ DataInv => T!IntactInStep
<1> SUFFICES ASSUME TelnetType, DataIsThere PROVE T!DataIntact
  BY DEF DataInv, T!IntactInStep
<1>1. /\ received \in Seq(Bytes) /\ written \in Seq(T!Data)
      /\ Len(received) \in Nat /\ Len(written) \in Nat
  BY DEF TelnetType
<1>2. T!IsPrefix(received, written)
  <2>1. SubSeq(received, 1, Len(received)) = SubSeq(written, 1, Len(received))
    BY <1>1 DEF DataIsThere, ReadSoFar
  <2>2. QED
    BY <2>1 DEF T!IsPrefix, DataIsThere, ReadSoFar
<1>3. ASSUME T!Quiet PROVE received = written
  <2>1. wire[Remote] = << >> /\ second = << >>
    BY <1>3, TwoEnds DEF T!Quiet
  <2>2. PICK p : Traced(<< >>, p, FirstPoint, LastPoint, written)
    BY <2>1 DEF DataIsThere, OnItsWay
  <2>3. FirstPoint = LastPoint
    BY <2>2 DEF Traced
  <2>4. Len(received) = Len(written)
    BY <2>1, <2>3 DEF FirstPoint, LastPoint
  <2>5. QED
    BY <1>1, <2>4 DEF DataIsThere, ReadSoFar
<1>4. QED
  BY <1>2, <1>3 DEF T!DataIntact

\* A telnet connection in any state of its negotiation: as long as the reader only
\* asks to enable binary mode and the writer only to disable it the data arrives byte
\* by byte as it was written; and when nothing is on its way the two ends agree on the
\* option, unless a request to enable crossed one to disable.
THEOREM TelnetIsIntact == T!TelnetSpec => []DataAndOptionsAgree
<1> DEFINE TelnetInv == TelnetType /\ AgreeInv /\ DataInv
<1>1. T!TelnetInit => TelnetInv
  BY InitTelnetType, InitAgree, InitData
<1>2. TelnetInv /\ [T!TelnetNext]_(T!telnetVars) => TelnetInv'
  BY StepTelnetType, StepAgree, StepData
<1>3. TelnetInv => DataAndOptionsAgree
  BY QuietAgrees, DataArrives DEF DataAndOptionsAgree
<1>4. QED
  BY <1>1, <1>2, <1>3, PTL DEF T!TelnetSpec
=============================================================================
