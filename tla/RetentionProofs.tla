---------------------------- MODULE RetentionProofs ----------------------------
(***************************************************************************)
(* The cleanup of the upload directory, for every directory, every policy, *)
(* every limit of the listing and every way a server cuts it into frames.  *)
(***************************************************************************)
EXTENDS HookInstallProofs

(* What the client makes of an upload's entry.                             *)
EntryOf(n) == [name |-> n, mtime |-> stamp[n]]

Passes ==
  [stage : {"open", "list", "remove", "ended"}, policy : Policies, now : Times,
   sent : SUBSET Names, entries : SUBSET Entries, truncated : BOOLEAN, err : BOOLEAN,
   done : BOOLEAN, plan : SUBSET Entries, removed : Nat, failed : Nat]

DirTypes ==
  /\ stamp \in [Names -> Times \cup {NoTime}]
  /\ present \subseteq used /\ atOpen \subseteq used /\ used \subseteq Names
  /\ pass \in Passes /\ pass.sent \subseteq used

(* The listing so far: the uploads among the names the server has sent, and
   all of them unless one too many came.  At the end the server has sent what
   was there from the first request to the last.                           *)
Listed ==
  /\ pass.entries \subseteq {EntryOf(n) : n \in pass.sent \cap Uploads}
  /\ ~pass.truncated => pass.entries = {EntryOf(n) : n \in pass.sent \cap Uploads}
  /\ Cardinality(pass.entries) <= ListCap
  /\ pass.done => atOpen \cap present \subseteq pass.sent /\ pass.stage # "open"
  /\ pass.stage \in {"open", "list"} => pass.plan = {} /\ pass.removed = 0 /\ pass.failed = 0

(* What is being removed is what was planned less what is gone.            *)
Acting  == pass.stage \in {"remove", "ended"} /\ ~pass.err
Planned == PlanRetention(pass.entries, pass.truncated, pass.now, pass.policy)

Carried ==
  /\ pass.stage = "remove" => ~pass.err
  /\ Acting =>
       /\ pass.truncated \/ pass.done
       /\ pass.plan \subseteq Planned
       /\ pass.removed + pass.failed + Cardinality(pass.plan) <= Cardinality(Planned)
       /\ pass.failed = 0 => \A e \in Planned \ pass.plan : e.name \notin present
       /\ \A e \in pass.plan : RemovalJustified(e.name)
  /\ pass.stage = "ended" => pass.plan = {}

DirInv == DirTypes /\ Listed /\ Carried

-----------------------------------------------------------------------------
(* Loops.                                                                  *)

LEMMA LastRound ==
  ASSUME NEW i \in Nat, i >= 1
  PROVE  1 .. i = (1 .. i - 1) \cup {i}
OBVIOUS

(* What holds of 0 and of the successor of each number it holds of, holds up
   to n.                                                                   *)
LEMMA UpTo ==
  ASSUME NEW n \in Nat, NEW good, 0 \in good,
         \A i \in 1 .. n : i - 1 \in good => i \in good
  PROVE  \A i \in 0 .. n : i \in good
<1> DEFINE bad == {i \in 0 .. n : i \notin good}
<1> SUFFICES ASSUME bad # {} PROVE FALSE
  OBVIOUS
<1>3. PICK m \in bad : \A k \in bad : m <= k
  <2>1. bad \in SUBSET Nat
    OBVIOUS
  <2> HIDE DEF bad
  <2> QED BY <2>1, LeastNatural
<1>4. m # 0 /\ m \in 1 .. n
  OBVIOUS
<1>5. m - 1 \in bad
  BY <1>4
<1>6. ~(m <= m - 1)
  BY <1>4
<1> QED BY <1>3, <1>5, <1>6

(* The states of a loop after each of its n rounds.                        *)
IsLoop(f, n, S, base, step) ==
  /\ f \in [0 .. n -> S] /\ f[0] = base
  /\ \A i \in 1 .. n : f[i] = step[i][f[i - 1]]

(* A loop with n rounds has a result.                                      *)
LEMMA LoopExists ==
  ASSUME NEW n \in Nat, NEW S, NEW base \in S, NEW step \in [1 .. n -> [S -> S]]
  PROVE  \E f : IsLoop(f, n, S, base, step)
<1> DEFINE Runs(m) == \E f : IsLoop(f, m, S, base, step)
           good == {m \in 0 .. n : Runs(m)}
<1>1. 0 \in good
  <2> DEFINE f == [i \in 0 .. 0 |-> base]
  <2>1. f \in [0 .. 0 -> S] /\ f[0] = base /\ \A i \in 1 .. 0 : f[i] = step[i][f[i - 1]]
    OBVIOUS
  <2> HIDE DEF f
  <2>2. Runs(0)
    BY <2>1 DEF IsLoop
  <2> HIDE DEF Runs
  <2> QED BY <2>2
<1>2. ASSUME NEW m \in 1 .. n, m - 1 \in good PROVE m \in good
  <2>1. PICK f \in [0 .. m - 1 -> S] :
          f[0] = base /\ \A i \in 1 .. m - 1 : f[i] = step[i][f[i - 1]]
    BY <1>2 DEF IsLoop
  <2> DEFINE g == [i \in 0 .. m |-> IF i < m THEN f[i] ELSE step[m][f[m - 1]]]
  <2>2. f[m - 1] \in S /\ step[m][f[m - 1]] \in S
    OBVIOUS
  <2>3. g \in [0 .. m -> S]
    BY <2>2
  <2>4. /\ \A i \in 0 .. m - 1 : g[i] = f[i]
        /\ g[m] = step[m][f[m - 1]]
    OBVIOUS
  <2> HIDE DEF g
  <2>5. g[0] = base
    BY <2>1, <2>4
  <2>6. ASSUME NEW i \in 1 .. m PROVE g[i] = step[i][g[i - 1]]
    <3>1. CASE i = m
      BY <2>4, <3>1
    <3>2. CASE i # m
      BY <2>1, <2>4, <3>2
    <3> QED BY <3>1, <3>2
  <2>7. Runs(m)
    BY <2>3, <2>5, <2>6 DEF IsLoop
  <2> HIDE DEF Runs
  <2> QED BY <2>7
<1>3. n \in 0 .. n
  OBVIOUS
<1> HIDE DEF good
<1>4. n \in good
  BY <1>1, <1>2, <1>3, UpTo
<1> QED BY <1>4 DEF good

-----------------------------------------------------------------------------
(* Reading a reply.                                                        *)

Values == (SUBSET AttrGroups) \cup Nat \cup {"x", "y", "longname", NoTime}
Fields == [is : {"flags", "u32", "u64", "str"}, v : Values]

(* The fields of b stand in f from position p on.                          *)
Holds(f, p, b) ==
  \A k \in 1 .. Len(b) : p + k - 1 \in 1 .. Len(f) /\ f[p + k - 1] = b[k]

LEMMA HoldsLonger ==
  ASSUME NEW S, NEW s \in Seq(S), NEW t \in Seq(S), NEW p, NEW b, Holds(s, p, b)
  PROVE  Holds(s \o t, p, b)
<1>1. /\ Len(s \o t) = Len(s) + Len(t) /\ Len(s) \in Nat /\ Len(t) \in Nat
      /\ \A i \in 1 .. Len(s) : i \in 1 .. Len(s) + Len(t) /\ (s \o t)[i] = s[i]
  BY ConcatProperties, LenProperties
<1> QED BY <1>1, Zenon DEF Holds

LEMMA HoldsEnd ==
  ASSUME NEW S, NEW s \in Seq(S), NEW t \in Seq(S)
  PROVE  Holds(s \o t, Len(s) + 1, t)
<1>1. Len(s \o t) = Len(s) + Len(t) /\ Len(s) \in Nat /\ Len(t) \in Nat
  BY ConcatProperties, LenProperties
<1>2. ASSUME NEW k \in 1 .. Len(t)
      PROVE  Len(s) + 1 + k - 1 \in 1 .. Len(s \o t) /\ (s \o t)[Len(s) + 1 + k - 1] = t[k]
  <2>1. /\ Len(s) + 1 + k - 1 = Len(s) + k /\ Len(s) + k \in 1 .. Len(s) + Len(t)
        /\ ~(Len(s) + k <= Len(s)) /\ Len(s) + k - Len(s) = k
    BY <1>1
  <2>2. (s \o t)[Len(s) + k] = t[Len(s) + k - Len(s)]
    BY <2>1, ConcatProperties
  <2> QED BY <1>1, <2>1, <2>2
<1> QED BY <1>2 DEF Holds

LEMMA HoldsParts ==
  ASSUME NEW S, NEW a \in Seq(S), NEW b \in Seq(S), NEW f, NEW p \in Nat, Holds(f, p, a \o b)
  PROVE  Holds(f, p, a) /\ Holds(f, p + Len(a), b)
<1>1. Len(a \o b) = Len(a) + Len(b) /\ Len(a) \in Nat /\ Len(b) \in Nat
  BY ConcatProperties, LenProperties
<1>2. ASSUME NEW k \in 1 .. Len(a)
      PROVE  p + k - 1 \in 1 .. Len(f) /\ f[p + k - 1] = a[k]
  <2>1. k \in 1 .. Len(a \o b) /\ k <= Len(a) /\ k \in 1 .. Len(a) + Len(b)
    BY <1>1
  <2>2. (a \o b)[k] = a[k]
    BY <2>1, ConcatProperties
  <2> QED BY <2>1, <2>2 DEF Holds
<1>3. ASSUME NEW k \in 1 .. Len(b)
      PROVE  p + Len(a) + k - 1 \in 1 .. Len(f) /\ f[p + Len(a) + k - 1] = b[k]
  <2>1. /\ Len(a) + k \in 1 .. Len(a \o b) /\ ~(Len(a) + k <= Len(a))
        /\ Len(a) + k \in 1 .. Len(a) + Len(b)
        /\ p + (Len(a) + k) - 1 = p + Len(a) + k - 1 /\ Len(a) + k - Len(a) = k
    BY <1>1
  <2>2. (a \o b)[Len(a) + k] = b[k]
    BY <2>1, ConcatProperties
  <2>3. /\ p + (Len(a) + k) - 1 \in 1 .. Len(f)
        /\ f[p + (Len(a) + k) - 1] = (a \o b)[Len(a) + k]
    BY <2>1 DEF Holds
  <2> QED BY <2>1, <2>2, <2>3
<1> QED BY <1>2, <1>3 DEF Holds

(* Fields of the kinds asked for are read.                                 *)
LEMMA ReadFields ==
  ASSUME NEW f, NEW p \in Nat \ {0}, NEW b, Holds(f, p, b),
         NEW kinds, Len(kinds) = Len(b), \A i \in 1 .. Len(b) : b[i].is = kinds[i]
  PROVE  NextN(f, p, kinds) = p + Len(b)
<1>1. ASSUME NEW i \in 1 .. Len(kinds) PROVE Next1(f, p + i - 1, kinds[i]) # 0
  <2>1. p + i - 1 \in 1 .. Len(f) /\ f[p + i - 1].is = kinds[i]
    BY DEF Holds
  <2>2. p + i - 1 + 1 # 0
    OBVIOUS
  <2> QED BY <2>1, <2>2 DEF Next1
<1> QED BY <1>1 DEF NextN

Number == Field("u32", 0)
TimesOf(t) == <<Field("u32", t), Field("u32", t)>>
Extras == <<Field("u32", 1), Field("str", "x"), Field("str", "y")>>

LEMMA PartsAreFields ==
  ASSUME NEW t \in Nat \cup {NoTime}, NEW groups \in SUBSET AttrGroups
  PROVE  /\ <<Field("flags", groups)>> \in Seq(Fields)
         /\ <<Field("u64", 0)>> \in Seq(Fields)
         /\ <<Number>> \in Seq(Fields) /\ <<Number, Number>> \in Seq(Fields)
         /\ TimesOf(t) \in Seq(Fields) /\ Extras \in Seq(Fields) /\ <<>> \in Seq(Fields)
<1>1. Field("u32", t) \in Fields /\ Field("flags", groups) \in Fields
  BY DEF Field, Fields, Values
<1>2. /\ Field("u64", 0) \in Fields /\ Number \in Fields /\ Field("u32", 1) \in Fields
      /\ Field("str", "x") \in Fields /\ Field("str", "y") \in Fields
  BY DEF Field, Fields, Values, Number
<1> HIDE DEF Fields, Number
<1> QED BY <1>1, <1>2 DEF TimesOf, Extras

(* A position moved by one more part.                                      *)
LEMMA Shifted ==
  ASSUME NEW p \in Nat, NEW a \in Nat, NEW b \in Nat, NEW q \in Nat \ {0}, p + a = q
  PROVE  q + b \in Nat \ {0} /\ p + (a + b) = q + b
OBVIOUS

(* ATTRS, whatever its flags: the reader ends behind it.                   *)
LEMMA AttrsRead ==
  ASSUME NEW t \in Nat \cup {NoTime}, NEW groups \in SUBSET AttrGroups,
         NEW f, NEW p \in Nat \ {0}, Holds(f, p, AttrFields(groups, t))
  PROVE  /\ AttrFields(groups, t) \in Seq(Fields)
         /\ Attrs(f, p) = [next  |-> p + Len(AttrFields(groups, t)),
                           mtime |-> IF "times" \in groups THEN t ELSE NoTime]
<1> DEFINE Part(g, b) == IF g \in groups THEN b ELSE <<>>
           s0 == <<Field("flags", groups)>>
           s1 == Part("size", <<Field("u64", 0)>>)
           s2 == Part("uidgid", <<Number, Number>>)
           s3 == Part("perms", <<Number>>)
           s4 == Part("times", TimesOf(t))
           s5 == Part("extended", Extras)
           x1 == s0 \o s1
           x2 == x1 \o s2
           x3 == x2 \o s3
           x4 == x3 \o s4
           x5 == x4 \o s5
<1>1. AttrFields(groups, t) = x5
  BY DEF AttrFields, Number, TimesOf, Extras
<1>2. /\ s0 \in Seq(Fields) /\ s1 \in Seq(Fields) /\ s2 \in Seq(Fields) /\ s3 \in Seq(Fields)
      /\ s4 \in Seq(Fields) /\ s5 \in Seq(Fields)
  BY PartsAreFields, Zenon
<1>3. Len(s0) = 1
  OBVIOUS
<1> HIDE DEF s0, s1, s2, s3, s4, s5
<1>4. /\ x1 \in Seq(Fields) /\ Len(x1) = 1 + Len(s1) /\ Len(x1) \in Nat
      /\ Len(s1) \in Nat /\ Len(s2) \in Nat /\ Len(s3) \in Nat /\ Len(s4) \in Nat /\ Len(s5) \in Nat
  BY <1>2, <1>3, ConcatProperties, LenProperties
<1> HIDE DEF x1
<1>5. x2 \in Seq(Fields) /\ Len(x2) = Len(x1) + Len(s2) /\ Len(x2) \in Nat
  BY <1>2, <1>4, ConcatProperties, LenProperties
<1> HIDE DEF x2
<1>6. x3 \in Seq(Fields) /\ Len(x3) = Len(x2) + Len(s3) /\ Len(x3) \in Nat
  BY <1>2, <1>5, ConcatProperties, LenProperties
<1> HIDE DEF x3
<1>7. x4 \in Seq(Fields) /\ Len(x4) = Len(x3) + Len(s4) /\ Len(x4) \in Nat
  BY <1>2, <1>6, ConcatProperties, LenProperties
<1> HIDE DEF x4
<1>8. x5 \in Seq(Fields) /\ Len(x5) = Len(x4) + Len(s5) /\ Len(x5) \in Nat
  BY <1>2, <1>7, ConcatProperties, LenProperties
<1>9. Holds(f, p, x4) /\ Holds(f, p + Len(x4), s5)
  BY <1>1, <1>2, <1>7, HoldsParts
<1>10. Holds(f, p, x3) /\ Holds(f, p + Len(x3), s4)
  BY <1>2, <1>6, <1>9, HoldsParts DEF x4
<1>11. Holds(f, p, x2) /\ Holds(f, p + Len(x2), s3)
  BY <1>2, <1>5, <1>10, HoldsParts DEF x3
<1>12. Holds(f, p, x1) /\ Holds(f, p + Len(x1), s2)
  BY <1>2, <1>4, <1>11, HoldsParts DEF x2
<1>13. Holds(f, p, s0) /\ Holds(f, p + Len(s0), s1)
  BY <1>2, <1>12, HoldsParts DEF x1
<1> DEFINE q1 == p + 1
           q2 == q1 + Len(s1)
           q3 == q2 + Len(s2)
           q4 == q3 + Len(s3)
           q5 == q4 + Len(s4)
           q6 == q5 + Len(s5)
<1>14. /\ q1 \in Nat \ {0} /\ q2 \in Nat \ {0} /\ q3 \in Nat \ {0} /\ q4 \in Nat \ {0}
       /\ q5 \in Nat \ {0} /\ q6 \in Nat \ {0}
       /\ p + Len(s0) = q1 /\ p + Len(x1) = q2 /\ p + Len(x2) = q3 /\ p + Len(x3) = q4
       /\ p + Len(x4) = q5 /\ p + Len(x5) = q6
  <2>1. q1 \in Nat \ {0} /\ p + 1 = q1
    OBVIOUS
  <2> HIDE DEF q1, x5
  <2>2. q2 \in Nat \ {0} /\ p + Len(x1) = q2
    <3>1. Len(x1) = 1 + Len(s1) /\ 1 \in Nat /\ Len(s1) \in Nat
      BY <1>4
    <3> QED BY <2>1, <3>1, Shifted
  <2> HIDE DEF q2
  <2>3. q3 \in Nat \ {0} /\ p + Len(x2) = q3
    <3>1. Len(x2) = Len(x1) + Len(s2) /\ Len(x1) \in Nat /\ Len(s2) \in Nat
      BY <1>4, <1>5
    <3> QED BY <2>2, <3>1, Shifted
  <2> HIDE DEF q3
  <2>4. q4 \in Nat \ {0} /\ p + Len(x3) = q4
    <3>1. Len(x3) = Len(x2) + Len(s3) /\ Len(x2) \in Nat /\ Len(s3) \in Nat
      BY <1>4, <1>5, <1>6
    <3> QED BY <2>3, <3>1, Shifted
  <2> HIDE DEF q4
  <2>5. q5 \in Nat \ {0} /\ p + Len(x4) = q5
    <3>1. Len(x4) = Len(x3) + Len(s4) /\ Len(x3) \in Nat /\ Len(s4) \in Nat
      BY <1>4, <1>6, <1>7
    <3> QED BY <2>4, <3>1, Shifted
  <2> HIDE DEF q5
  <2>6. q6 \in Nat \ {0} /\ p + Len(x5) = q6
    <3>1. Len(x5) = Len(x4) + Len(s5) /\ Len(x4) \in Nat /\ Len(s5) \in Nat
      BY <1>4, <1>7, <1>8
    <3> QED BY <2>5, <3>1, Shifted
  <2> QED BY <1>3, <2>1, <2>2, <2>3, <2>4, <2>5, <2>6
<1> HIDE DEF q1, q2, q3, q4, q5, q6, x5
<1>15. Next1(f, p, "flags") = q1 /\ f[p].v = groups
  <2>1. p \in 1 .. Len(f) /\ f[p] = Field("flags", groups)
    BY <1>3, <1>13 DEF Holds, s0
  <2> QED BY <2>1 DEF Next1, Field, q1
<1> DEFINE Group(g, q, kinds) == IF g \in groups THEN NextN(f, q, kinds) ELSE q
<1>16. ASSUME NEW g, NEW q \in Nat \ {0}, NEW b, Holds(f, q, Part(g, b)),
              NEW kinds, Len(kinds) = Len(b), \A i \in 1 .. Len(b) : b[i].is = kinds[i]
       PROVE  Group(g, q, kinds) = q + Len(Part(g, b))
  <2>1. CASE g \in groups
    BY <1>16, <2>1, ReadFields
  <2>2. CASE g \notin groups
    BY <2>2
  <2> QED BY <2>1, <2>2
<1>17. Group("size", q1, <<"u64">>) = q2
  <2> DEFINE b == <<Field("u64", 0)>>
             kinds == <<"u64">>
  <2>1. Len(kinds) = Len(b) /\ \A i \in 1 .. Len(b) : b[i].is = kinds[i]
    BY DEF Field
  <2>2. Holds(f, q1, Part("size", b)) /\ s1 = Part("size", b)
    BY <1>13, <1>14 DEF s1
  <2> HIDE DEF Part, Group, b, kinds
  <2>3. Group("size", q1, kinds) = q1 + Len(Part("size", b))
    BY <1>14, <1>16, <2>1, <2>2
  <2> QED BY <2>2, <2>3 DEF q2, kinds
<1>18. Group("uidgid", q2, <<"u32", "u32">>) = q3
  <2> DEFINE b == <<Number, Number>>
             kinds == <<"u32", "u32">>
  <2>1. Len(kinds) = Len(b) /\ \A i \in 1 .. Len(b) : b[i].is = kinds[i]
    BY DEF Field, Number
  <2>2. Holds(f, q2, Part("uidgid", b)) /\ s2 = Part("uidgid", b)
    BY <1>12, <1>14 DEF s2
  <2> HIDE DEF Part, Group, b, kinds
  <2>3. Group("uidgid", q2, kinds) = q2 + Len(Part("uidgid", b))
    BY <1>14, <1>16, <2>1, <2>2
  <2> QED BY <2>2, <2>3 DEF q3, kinds
<1>19. Group("perms", q3, <<"u32">>) = q4
  <2> DEFINE b == <<Number>>
             kinds == <<"u32">>
  <2>1. Len(kinds) = Len(b) /\ \A i \in 1 .. Len(b) : b[i].is = kinds[i]
    BY DEF Field, Number
  <2>2. Holds(f, q3, Part("perms", b)) /\ s3 = Part("perms", b)
    BY <1>11, <1>14 DEF s3
  <2> HIDE DEF Part, Group, b, kinds
  <2>3. Group("perms", q3, kinds) = q3 + Len(Part("perms", b))
    BY <1>14, <1>16, <2>1, <2>2
  <2> QED BY <2>2, <2>3 DEF q4, kinds
<1>20. Group("times", q4, <<"u32", "u32">>) = q5
  <2> DEFINE b == TimesOf(t)
             kinds == <<"u32", "u32">>
  <2>1. Len(kinds) = Len(b) /\ \A i \in 1 .. Len(b) : b[i].is = kinds[i]
    BY DEF Field, TimesOf
  <2>2. Holds(f, q4, Part("times", b)) /\ s4 = Part("times", b)
    BY <1>10, <1>14 DEF s4
  <2> HIDE DEF Part, Group, b, kinds
  <2>3. Group("times", q4, kinds) = q4 + Len(Part("times", b))
    BY <1>14, <1>16, <2>1, <2>2
  <2> QED BY <2>2, <2>3 DEF q5, kinds
<1>21. "extended" \in groups => Extended(f, q5) = q6
  <2> SUFFICES ASSUME "extended" \in groups PROVE Extended(f, q5) = q6
    OBVIOUS
  <2>1. s5 = Extras
    BY DEF s5
  <2>2. /\ Len(s5) = 3 /\ s5[1].is = "u32" /\ s5[1].v = 1
        /\ s5[2].is = "str" /\ s5[3].is = "str"
    BY <2>1 DEF Extras, Field
  <2>3. Holds(f, q5, s5)
    BY <1>9, <1>14
  <2>4. \A k \in 1 .. 3 : q5 + k - 1 \in 1 .. Len(f) /\ f[q5 + k - 1] = s5[k]
    BY <2>2, <2>3 DEF Holds
  <2>5. /\ q5 \in 1 .. Len(f) /\ f[q5] = s5[1] /\ q5 + 1 \in 1 .. Len(f) /\ f[q5 + 1] = s5[2]
        /\ q5 + 2 \in 1 .. Len(f) /\ f[q5 + 2] = s5[3]
    BY <1>14, <2>4
  <2>6. Next1(f, q5, "u32") = q5 + 1 /\ q5 + 1 # 0 /\ 2 * f[q5].v = 2
    <3>1. f[q5].is = "u32" /\ f[q5].v = 1 /\ q5 \in 1 .. Len(f)
      BY <2>2, <2>5
    <3>2. Next1(f, q5, "u32") = q5 + 1
      BY <3>1 DEF Next1
    <3> QED BY <1>14, <3>1, <3>2
  <2>7. NextN(f, q5 + 1, [i \in 1 .. 2 |-> "str"]) = q5 + 3
    <3> DEFINE q == q5 + 1
               strings == [i \in 1 .. 2 |-> "str"]
    <3>1. Next1(f, q5 + 1, "str") # 0 /\ Next1(f, q5 + 2, "str") # 0
      <4>1. /\ q5 + 1 \in 1 .. Len(f) /\ f[q5 + 1].is = "str"
            /\ q5 + 2 \in 1 .. Len(f) /\ f[q5 + 2].is = "str"
        BY <2>2, <2>5
      <4>2. q5 + 1 + 1 # 0 /\ q5 + 2 + 1 # 0
        BY <1>14
      <4> QED BY <4>1, <4>2 DEF Next1
    <3>2. strings \in Seq({"str"}) /\ Len(strings) = 2
          /\ \A i \in 1 .. 2 : strings[i] = "str"
      OBVIOUS
    <3>3. q \in Nat /\ q # 0 /\ q + 2 = q5 + 3 /\ q + 1 - 1 = q5 + 1 /\ q + 2 - 1 = q5 + 2
      BY <1>14
    <3>4. \A i \in 1 .. 2 : i = 1 \/ i = 2
      OBVIOUS
    <3> HIDE DEF strings, q
    <3>5. \A i \in 1 .. 2 : Next1(f, q + i - 1, strings[i]) # 0
      BY <3>1, <3>2, <3>3, <3>4
    <3>6. NextN(f, q, strings) = q + 2
      BY <3>2, <3>3, <3>5 DEF NextN
    <3> QED BY <3>3, <3>6 DEF q, strings
  <2>8. Extended(f, q5) = NextN(f, q5 + 1, [i \in 1 .. 2 |-> "str"])
    BY <2>6 DEF Extended
  <2> QED BY <2>2, <2>7, <2>8 DEF q6
<1>22. "extended" \notin groups => q5 = q6
  BY <1>14 DEF q6, s5
<1>23. "times" \in groups => f[q4 + 1].v = t
  <2> SUFFICES ASSUME "times" \in groups PROVE f[q4 + 1].v = t
    OBVIOUS
  <2>1. Len(s4) = 2 /\ s4[2] = Field("u32", t) /\ Holds(f, q4, s4)
    BY <1>10, <1>14 DEF s4, TimesOf
  <2>2. 2 \in 1 .. Len(s4) /\ q4 + 2 - 1 = q4 + 1
    BY <1>14, <2>1
  <2>3. f[q4 + 2 - 1] = s4[2]
    BY <2>1, <2>2 DEF Holds
  <2> QED BY <2>1, <2>2, <2>3 DEF Field
<1>24. Attrs(f, p) = [next |-> q6, mtime |-> IF "times" \in groups THEN t ELSE NoTime]
  BY <1>14, <1>15, <1>17, <1>18, <1>19, <1>20, <1>21, <1>22, <1>23 DEF Attrs
<1> QED BY <1>1, <1>8, <1>14, <1>24

(* The entry of a name.                                                    *)
Sent(n, more) ==
  NameFields(n, more \cup IF stamp[n] = NoTime THEN {} ELSE {"times"}, stamp[n])

IsEntry(f, p, n, more) ==
  /\ Entry(f, p).next = p + Len(Sent(n, more))
  /\ Entry(f, p).name = n /\ Entry(f, p).mtime = stamp[n]

LEMMA EntryRead ==
  ASSUME DirTypes, NEW n \in Names, NEW more \in {{}, AttrGroups \ {"times"}}
  PROVE  /\ Sent(n, more) \in Seq(Fields)
         /\ \A f : \A p \in Nat \ {0} :
              Holds(f, p, Sent(n, more)) => IsEntry(f, p, n, more)
<1> DEFINE groups == more \cup IF stamp[n] = NoTime THEN {} ELSE {"times"}
           head == <<Field("str", n), Field("str", "longname")>>
           attrs == AttrFields(groups, stamp[n])
           kinds == <<"str", "str">>
<1>1. Sent(n, more) = head \o attrs
  BY DEF Sent, NameFields
<1>2. stamp[n] \in Nat \cup {NoTime} /\ n \in Nat
  BY RetentionAssumption DEF DirTypes, Names
<1>3. groups \in SUBSET AttrGroups /\ ("times" \in groups <=> stamp[n] # NoTime)
  BY DEF AttrGroups
<1>4. attrs \in Seq(Fields)
  <2> DEFINE f == attrs
  <2>1. Holds(f, 1, attrs)
    <3>1. \A k \in 1 .. Len(attrs) : 1 + k - 1 \in 1 .. Len(f) /\ f[1 + k - 1] = attrs[k]
      <4> HIDE DEF attrs
      <4>1. \A k \in 1 .. Len(attrs) : 1 + k - 1 = k
        OBVIOUS
      <4> QED BY <4>1
    <3> QED BY <3>1 DEF Holds
  <2>2. 1 \in Nat \ {0}
    OBVIOUS
  <2> HIDE DEF groups, f
  <2> QED BY <1>2, <1>3, <2>1, <2>2, AttrsRead
<1>5. head \in Seq(Fields) /\ Len(head) = 2
  <2>1. Field("str", n) \in Fields /\ Field("str", "longname") \in Fields
    BY <1>2 DEF Field, Fields, Values
  <2> HIDE DEF Fields
  <2> QED BY <2>1
<1> HIDE DEF groups, attrs
<1>6. Sent(n, more) \in Seq(Fields) /\ Len(Sent(n, more)) = 2 + Len(attrs) /\ Len(attrs) \in Nat
  <2> HIDE DEF head
  <2>1. /\ head \o attrs \in Seq(Fields) /\ Len(head \o attrs) = Len(head) + Len(attrs)
        /\ Len(attrs) \in Nat
    BY <1>4, <1>5, ConcatProperties, LenProperties
  <2> QED BY <1>1, <1>5, <2>1
<1>7. ASSUME NEW f, NEW p \in Nat \ {0}, Holds(f, p, Sent(n, more))
      PROVE  /\ Entry(f, p).next = p + Len(Sent(n, more))
             /\ Entry(f, p).name = n /\ Entry(f, p).mtime = stamp[n]
  <2>1. Holds(f, p, head) /\ Holds(f, p + 2, attrs)
    <3> HIDE DEF head
    <3>1. p \in Nat
      OBVIOUS
    <3> QED BY <1>1, <1>4, <1>5, <1>7, <3>1, HoldsParts
  <2>2. NextN(f, p, kinds) = p + 2
    <3>1. Len(kinds) = Len(head) /\ \A i \in 1 .. Len(head) : head[i].is = kinds[i]
      BY DEF Field
    <3> HIDE DEF head, kinds
    <3>2. NextN(f, p, kinds) = p + Len(head)
      BY <2>1, <3>1, ReadFields
    <3> QED BY <1>5, <3>2
  <2>3. f[p].v = n
    <3>1. 1 \in 1 .. Len(head) /\ p + 1 - 1 = p /\ head[1] = Field("str", n)
      OBVIOUS
    <3>2. f[p] = head[1]
      <4> HIDE DEF head
      <4> QED BY <2>1, <3>1 DEF Holds
    <3> QED BY <3>1, <3>2 DEF Field
  <2>4. Attrs(f, p + 2) = [next  |-> p + 2 + Len(attrs),
                           mtime |-> IF "times" \in groups THEN stamp[n] ELSE NoTime]
    <3>1. p + 2 \in Nat \ {0}
      OBVIOUS
    <3> QED BY <1>2, <1>3, <2>1, <3>1, AttrsRead DEF attrs
  <2>5. p + 2 + Len(attrs) # 0 /\ p + 2 + Len(attrs) = p + Len(Sent(n, more))
    BY <1>6
  <2> HIDE DEF kinds
  <2>6. Entry(f, p) = [next |-> Attrs(f, p + 2).next,
                       name |-> IF Attrs(f, p + 2).next = 0 THEN NoTime ELSE f[p].v,
                       mtime |-> Attrs(f, p + 2).mtime]
    BY <2>2 DEF Entry, kinds
  <2> QED BY <1>3, <2>3, <2>4, <2>5, <2>6
<1> QED BY <1>6, <1>7 DEF IsEntry

(* Where the entries of a reply begin, and that each is there.             *)
IsReply(f, order, more, at) ==
  /\ f \in Seq(Fields) /\ Len(f) >= 1 /\ f[1] = Field("u32", Len(order))
  /\ at \in [0 .. Len(order) -> Nat \ {0}] /\ at[0] = 2
  /\ \A i \in 1 .. Len(order) :
       /\ at[i] = at[i - 1] + Len(Sent(order[i], more))
       /\ Holds(f, at[i - 1], Sent(order[i], more))

LEMMA ReplyWhole ==
  ASSUME DirTypes, NEW names \in SUBSET Names, SetToSeq(names) \in Seq(Names),
         NEW more \in {{}, AttrGroups \ {"times"}}
  PROVE  \E at : IsReply(NameReply(names, more), SetToSeq(names), more, at)
<1> DEFINE order == SetToSeq(names)
           n == Len(order)
           upTo[i \in 0 .. Len(order)] ==
             IF i = 0 THEN <<Field("u32", Len(order))>>
             ELSE LET m == order[i]
                  IN upTo[i - 1] \o NameFields(m,
                       more \cup IF stamp[m] = NoTime THEN {} ELSE {"times"}, stamp[m])
           base == <<Field("u32", n)>>
           Body(f, i) == IF i = 0 THEN <<Field("u32", Len(order))>>
             ELSE LET m == order[i]
                  IN f[i - 1] \o NameFields(m,
                       more \cup IF stamp[m] = NoTime THEN {} ELSE {"times"}, stamp[m])
<1>1. NameReply(names, more) = upTo[n]
  BY DEF NameReply
<1> HIDE DEF upTo
<1>2. \A f, i : Body(f, i) = IF i = 0 THEN base ELSE f[i - 1] \o Sent(order[i], more)
  BY DEF Sent
<1> HIDE DEF Body
<1>3. n \in Nat /\ \A i \in 1 .. n : order[i] \in Names
  BY LenProperties
<1>4. base \in Seq(Fields) /\ Len(base) = 1 /\ base[1] = Field("u32", n)
  <2>1. Field("u32", n) \in Fields
    BY <1>3 DEF Field, Fields, Values
  <2> HIDE DEF Fields, n
  <2> QED BY <2>1
<1>5. \A i \in 1 .. n : Sent(order[i], more) \in Seq(Fields)
  <2> HIDE DEF n
  <2> QED BY <1>3, EntryRead
<1> HIDE DEF base
<1>6. \E f : f = [i \in 0 .. n |-> Body(f, i)]
  <2> DEFINE S == Seq(Fields)
             step == [i \in 1 .. n |-> [s \in S |-> s \o Sent(order[i], more)]]
  <2> HIDE DEF S
  <2>1. \A i \in 1 .. n, s \in S : step[i][s] = s \o Sent(order[i], more)
    OBVIOUS
  <2>2. step \in [1 .. n -> [S -> S]]
    <3>1. ASSUME NEW i \in 1 .. n, NEW s \in S PROVE s \o Sent(order[i], more) \in S
      <4> HIDE DEF n
      <4>1. s \in Seq(Fields) /\ Sent(order[i], more) \in Seq(Fields)
        BY <1>5 DEF S
      <4> QED BY <4>1, ConcatProperties DEF S
    <3> QED BY <3>1
  <2> HIDE DEF step, n, order
  <2>3. PICK f : IsLoop(f, n, S, base, step)
    BY <1>3, <1>4, <2>2, LoopExists DEF S
  <2>4. /\ f \in [0 .. n -> S] /\ f[0] = base
        /\ \A i \in 1 .. n : f[i] = step[i][f[i - 1]]
    BY <2>3 DEF IsLoop
  <2>5. ASSUME NEW i \in 0 .. n PROVE f[i] = Body(f, i)
    <3>1. CASE i = 0
      BY <1>2, <2>4, <3>1
    <3>2. CASE i # 0
      <4>1. i \in 1 .. n /\ i - 1 \in 0 .. n
        BY <1>3, <3>2
      <4>2. f[i] = step[i][f[i - 1]] /\ f[i - 1] \in S
        BY <2>4, <4>1
      <4>3. f[i] = f[i - 1] \o Sent(order[i], more)
        BY <2>1, <4>1, <4>2
      <4> QED BY <1>2, <3>2, <4>3
    <3> QED BY <3>1, <3>2
  <2>6. f = [i \in 0 .. n |-> Body(f, i)]
    BY <2>4, <2>5
  <2> QED BY <2>6
<1>7. upTo = [i \in 0 .. n |-> Body(upTo, i)]
  BY <1>6, Zenon DEF upTo, Body
<1>8. upTo[0] = base /\ \A i \in 1 .. n : upTo[i] = upTo[i - 1] \o Sent(order[i], more)
  <2> HIDE DEF n, order
  <2> QED BY <1>2, <1>3, <1>7
<1> DEFINE Fine(i) ==
             /\ upTo[i] \in Seq(Fields) /\ Len(upTo[i]) >= 1 /\ upTo[i][1] = Field("u32", n)
             /\ \A k \in 1 .. i : Holds(upTo[i], Len(upTo[k - 1]) + 1, Sent(order[k], more))
           good == {i \in 0 .. n : \A j \in 0 .. i : Fine(j)}
<1>9. 0 \in good
  <2> HIDE DEF n, order
  <2>1. Fine(0)
    <3>1. upTo[0] = base
      BY <1>8
    <3>2. upTo[0] \in Seq(Fields) /\ Len(upTo[0]) >= 1 /\ upTo[0][1] = Field("u32", n)
      <4>1. base \in Seq(Fields) /\ Len(base) >= 1 /\ base[1] = Field("u32", n)
        BY <1>4
      <4> QED BY <3>1, <4>1, Zenon
    <3>3. \A k \in 1 .. 0 : Holds(upTo[0], Len(upTo[k - 1]) + 1, Sent(order[k], more))
      OBVIOUS
    <3> QED BY <3>2, <3>3
  <2> HIDE DEF Fine
  <2> QED BY <1>3, <2>1
<1>10. ASSUME NEW i \in 1 .. n, i - 1 \in good PROVE i \in good
  <2> HIDE DEF n, order
  <2> DEFINE s == upTo[i - 1]
             t == Sent(order[i], more)
  <2>1. /\ s \in Seq(Fields) /\ Len(s) >= 1 /\ s[1] = Field("u32", n)
        /\ \A k \in 1 .. i - 1 : Holds(s, Len(upTo[k - 1]) + 1, Sent(order[k], more))
    BY <1>3, <1>10
  <2>2. t \in Seq(Fields) /\ upTo[i] = s \o t
    BY <1>5, <1>8
  <2> HIDE DEF s, t
  <2>3. s \o t \in Seq(Fields) /\ Len(s \o t) >= 1 /\ (s \o t)[1] = s[1]
    <3>1. /\ s \o t \in Seq(Fields) /\ Len(s \o t) = Len(s) + Len(t)
          /\ Len(s) \in Nat /\ Len(t) \in Nat
          /\ \A k \in 1 .. Len(s) + Len(t) :
               (s \o t)[k] = IF k <= Len(s) THEN s[k] ELSE t[k - Len(s)]
      BY <2>1, <2>2, ConcatProperties, LenProperties
    <3>2. 1 \in 1 .. Len(s) + Len(t) /\ 1 <= Len(s)
      BY <2>1, <3>1
    <3> QED BY <3>1, <3>2
  <2>4. Holds(s \o t, Len(s) + 1, t)
    BY <2>1, <2>2, HoldsEnd
  <2>5. \A k \in 1 .. i - 1 : Holds(s \o t, Len(upTo[k - 1]) + 1, Sent(order[k], more))
    BY <2>1, <2>2, HoldsLonger
  <2>6. \A k \in 1 .. i : k \in 1 .. i - 1 \/ k = i
    BY <1>3
  <2>7. Fine(i)
    BY <2>1, <2>2, <2>3, <2>4, <2>5, <2>6 DEF s, t
  <2>8. \A j \in 0 .. i : j \in 0 .. i - 1 \/ j = i
    BY <1>3
  <2> HIDE DEF Fine
  <2> QED BY <1>3, <1>10, <2>7, <2>8
<1>11. n \in good
  <2> HIDE DEF good, n
  <2>1. \A i \in 0 .. n : i \in good
    BY <1>3, <1>9, <1>10, UpTo
  <2> QED BY <1>3, <2>1
<1>12. \A j \in 0 .. n : Fine(j)
  BY <1>11
<1> DEFINE at == [i \in 0 .. n |-> Len(upTo[i]) + 1]
<1>13. IsReply(upTo[n], order, more, at)
  <2> HIDE DEF n, order
  <2>1. \A i \in 0 .. n : upTo[i] \in Seq(Fields) /\ Len(upTo[i]) \in Nat
    BY <1>12, LenProperties
  <2>2. /\ upTo[n] \in Seq(Fields) /\ Len(upTo[n]) >= 1 /\ upTo[n][1] = Field("u32", n)
        /\ \A k \in 1 .. n : Holds(upTo[n], Len(upTo[k - 1]) + 1, Sent(order[k], more))
    BY <1>3, <1>12
  <2>3. at \in [0 .. n -> Nat \ {0}]
    BY <2>1
  <2>4. at[0] = 2
    <3>1. 0 \in 0 .. n /\ upTo[0] = base
      BY <1>3, <1>8
    <3>2. at[0] = Len(upTo[0]) + 1
      BY <3>1
    <3>3. at[0] = Len(base) + 1
      BY <3>1, <3>2, Zenon
    <3> QED BY <1>4, <3>3
  <2>5. ASSUME NEW i \in 1 .. n
        PROVE  /\ at[i] = at[i - 1] + Len(Sent(order[i], more))
               /\ Holds(upTo[n], at[i - 1], Sent(order[i], more))
    <3>1. i \in 0 .. n /\ i - 1 \in 0 .. n
      BY <1>3
    <3>2. at[i] = Len(upTo[i]) + 1 /\ at[i - 1] = Len(upTo[i - 1]) + 1
      BY <3>1
    <3>3. Len(upTo[i]) = Len(upTo[i - 1]) + Len(Sent(order[i], more))
          /\ Len(upTo[i - 1]) \in Nat /\ Len(Sent(order[i], more)) \in Nat
      <4>1. /\ upTo[i] = upTo[i - 1] \o Sent(order[i], more)
            /\ upTo[i - 1] \in Seq(Fields) /\ Sent(order[i], more) \in Seq(Fields)
        BY <1>5, <1>8, <2>1, <3>1
      <4> DEFINE s == upTo[i - 1]
                 t == Sent(order[i], more)
      <4>2. s \in Seq(Fields) /\ t \in Seq(Fields) /\ upTo[i] = s \o t
        BY <4>1
      <4> HIDE DEF s, t
      <4>3. Len(upTo[i]) = Len(s) + Len(t) /\ Len(s) \in Nat /\ Len(t) \in Nat
        BY <4>2, ConcatProperties, LenProperties
      <4> QED BY <4>3 DEF s, t
    <3> HIDE DEF at
    <3>4. at[i] = at[i - 1] + Len(Sent(order[i], more))
      <4> DEFINE x == Len(upTo[i])
                 y == Len(upTo[i - 1])
                 z == Len(Sent(order[i], more))
      <4>1. x = y + z /\ y \in Nat /\ z \in Nat
        BY <3>3
      <4>2. at[i] = x + 1 /\ at[i - 1] = y + 1
        BY <3>2
      <4> HIDE DEF x, y
      <4>3. at[i] = at[i - 1] + z
        <5> HIDE DEF z
        <5> QED BY <4>1, <4>2
      <4> QED BY <4>3
    <3>5. Holds(upTo[n], Len(upTo[i - 1]) + 1, Sent(order[i], more))
      BY <2>2
    <3> QED BY <3>2, <3>4, <3>5, Zenon
  <2> HIDE DEF at
  <2> QED BY <2>2, <2>3, <2>4, <2>5 DEF IsReply, n
<1> QED BY <1>1, <1>13

(* The server sends each name of the reply once.                           *)
LEMMA OrderOf ==
  ASSUME NEW names, IsFiniteSet(names)
  PROVE  /\ SetToSeq(names) \in Seq(names) /\ Len(SetToSeq(names)) = Cardinality(names)
         /\ Cardinality(names) \in Nat
         /\ \A m \in names : \E i \in 1 .. Cardinality(names) : SetToSeq(names)[i] = m
<1> DEFINE n == Cardinality(names)
           order == SetToSeq(names)
<1>1. n \in Nat /\ \E f : f \in Injection(1 .. n, names)
  BY FS_CardinalityType DEF ExistsBijection, Bijection
<1> HIDE DEF n
<1>2. \E f \in [1 .. n -> names] : IsInjective(f)
  BY <1>1 DEF Injection
<1>3. order \in [1 .. n -> names] /\ IsInjective(order)
  BY <1>2, Zenon DEF SetToSeq, n
<1> HIDE DEF order
<1>4. order \in Injection(1 .. n, names)
  BY <1>3 DEF Injection
<1>5. IsFiniteSet(1 .. n) /\ Cardinality(1 .. n) = n
  BY <1>1, FS_Interval
<1>6. order \in Surjection(1 .. n, names)
  BY <1>4, <1>5, FS_Injection DEF n
<1>7. order \in Seq(names) /\ Len(order) = n
  BY <1>1, <1>3
<1> QED BY <1>1, <1>6, <1>7 DEF Surjection, n, order

(* What comes of a reply: its uploads, and never too many.                 *)
Takes(took, entries0, names) ==
  /\ took.entries \subseteq entries0 \cup {EntryOf(n) : n \in names \cap Uploads}
  /\ ~took.truncated => took.entries = entries0 \cup {EntryOf(n) : n \in names \cap Uploads}
  /\ Cardinality(took.entries) <= ListCap
  /\ took.truncated \in BOOLEAN /\ took.err = FALSE

LEMMA ReplyTaken ==
  ASSUME DirTypes, NEW names \in SUBSET Names, IsFiniteSet(names), names # {},
         NEW more \in {{}, AttrGroups \ {"times"}},
         NEW entries0 \in SUBSET Entries, IsFiniteSet(entries0),
         Cardinality(entries0) <= ListCap
  PROVE  Takes(TakeEntries(NameReply(names, more), entries0), entries0, names)
<1> DEFINE f == NameReply(names, more)
           order == SetToSeq(names)
           n == Len(order)
<1>1. /\ order \in Seq(names) /\ n \in Nat /\ n # 0
      /\ \A i \in 1 .. n : order[i] \in names
      /\ \A m \in names : \E i \in 1 .. n : order[i] = m
  <2>1. Cardinality(names) # 0
    BY FS_EmptySet
  <2> QED BY <2>1, OrderOf
<1>2. PICK pos : IsReply(f, order, more, pos)
  <2>1. order \in Seq(Names)
    BY <1>1
  <2> HIDE DEF order
  <2> QED BY <2>1, ReplyWhole DEF order
<1> HIDE DEF order, f
<1>3. Next1(f, 1, "u32") = 2 /\ f[1].v = n
  BY <1>2 DEF IsReply, Next1, Field
<1> DEFINE count == IF Next1(f, 1, "u32") = 0 THEN 0 ELSE f[1].v
           at[i \in 0 .. count] ==
             IF i = 0
             THEN [p |-> 2, entries |-> entries0, truncated |-> FALSE, err |-> count = 0]
             ELSE LET s == at[i - 1]
                      e == Entry(f, s.p)
                  IN IF s.err \/ s.truncated THEN s
                     ELSE IF e.next = 0 THEN [s EXCEPT !.err = TRUE]
                     ELSE IF ~MatchesUploadName(e.name) THEN [s EXCEPT !.p = e.next]
                     ELSE IF Cardinality(s.entries) = ListCap
                          THEN [s EXCEPT !.truncated = TRUE]
                     ELSE [s EXCEPT !.p = e.next,
                                    !.entries = @ \cup {[name |-> e.name, mtime |-> e.mtime]}]
           Body(g, i) ==
             IF i = 0
             THEN [p |-> 2, entries |-> entries0, truncated |-> FALSE, err |-> count = 0]
             ELSE LET s == g[i - 1]
                      e == Entry(f, s.p)
                  IN IF s.err \/ s.truncated THEN s
                     ELSE IF e.next = 0 THEN [s EXCEPT !.err = TRUE]
                     ELSE IF ~MatchesUploadName(e.name) THEN [s EXCEPT !.p = e.next]
                     ELSE IF Cardinality(s.entries) = ListCap
                          THEN [s EXCEPT !.truncated = TRUE]
                     ELSE [s EXCEPT !.p = e.next,
                                    !.entries = @ \cup {[name |-> e.name, mtime |-> e.mtime]}]
           With(s) ==
             IF s.err \/ s.truncated THEN s
             ELSE IF Entry(f, s.p).next = 0 THEN [s EXCEPT !.err = TRUE]
             ELSE IF Entry(f, s.p).name \notin Uploads
                  THEN [s EXCEPT !.p = Entry(f, s.p).next]
             ELSE IF Cardinality(s.entries) = ListCap THEN [s EXCEPT !.truncated = TRUE]
             ELSE [s EXCEPT !.p = Entry(f, s.p).next,
                            !.entries = @ \cup {[name |-> Entry(f, s.p).name,
                                                 mtime |-> Entry(f, s.p).mtime]}]
           base == [p |-> 2, entries |-> entries0, truncated |-> FALSE, err |-> FALSE]
<1>4. TakeEntries(f, entries0) = at[count]
  BY DEF TakeEntries
<1> HIDE DEF at
<1>5. count = n
  BY <1>1, <1>3
<1>6. \A g, i : Body(g, i) = IF i = 0 THEN base ELSE With(g[i - 1])
  <2>1. \A g, i : i = 0 => Body(g, i) = base
    BY <1>1, <1>5
  <2> HIDE DEF count
  <2>2. ASSUME NEW g, NEW i, i # 0 PROVE Body(g, i) = With(g[i - 1])
    BY <2>2 DEF MatchesUploadName
  <2> HIDE DEF Body, With, base
  <2> QED BY <2>1, <2>2
<1> HIDE DEF Body, count
<1> DEFINE S == [p : Nat, entries : SUBSET Entries, truncated : BOOLEAN, err : BOOLEAN]
           Es(i) == {EntryOf(order[k]) : k \in {j \in 1 .. i : order[j] \in Uploads}}
           Good(s, i) ==
             /\ s \in S /\ ~s.err /\ s.entries \subseteq entries0 \cup Es(i)
             /\ IsFiniteSet(s.entries) /\ Cardinality(s.entries) <= ListCap
             /\ ~s.truncated => s.p = pos[i] /\ s.entries = entries0 \cup Es(i)
<1>7. Good(base, 0)
  <2>1. pos[0] = 2
    BY <1>2 DEF IsReply
  <2>2. Es(0) = {}
    OBVIOUS
  <2>3. base \in S
    OBVIOUS
  <2> HIDE DEF S, Es
  <2> QED BY <2>1, <2>2, <2>3
<1>8. ASSUME NEW i \in 1 .. n, NEW s, Good(s, i - 1) PROVE Good(With(s), i)
  <2> DEFINE m == order[i]
             x == EntryOf(m)
  <2>1. Es(i) = Es(i - 1) \cup IF m \in Uploads THEN {x} ELSE {}
    <3> DEFINE J(k) == {j \in 1 .. k : order[j] \in Uploads}
    <3>1. 1 .. i = (1 .. i - 1) \cup {i}
      <4>1. i \in Nat /\ i >= 1
        BY <1>1
      <4> QED BY <4>1, LastRound, Zenon
    <3>2. CASE m \in Uploads
      <4>1. J(i) = J(i - 1) \cup {i}
        BY <3>1, <3>2
      <4> HIDE DEF J
      <4>2. {EntryOf(order[k]) : k \in J(i)} = {EntryOf(order[k]) : k \in J(i - 1)} \cup {x}
        BY <4>1
      <4> QED BY <3>2, <4>2 DEF J
    <3>3. CASE m \notin Uploads
      <4>1. J(i) = J(i - 1)
        BY <3>1, <3>3
      <4> QED BY <3>3, <4>1
    <3> QED BY <3>2, <3>3
  <2>2. CASE s.truncated
    <3>1. With(s) = s
      BY <2>2
    <3> HIDE DEF S, Es, With, x, m
    <3> QED BY <1>8, <2>1, <2>2, <3>1
  <2>3. CASE ~s.truncated
    <3>1. /\ s.p = pos[i - 1] /\ pos[i - 1] \in Nat \ {0}
          /\ pos[i] = pos[i - 1] + Len(Sent(m, more)) /\ pos[i] \in Nat \ {0}
          /\ Holds(f, pos[i - 1], Sent(m, more))
      <4>1. i - 1 \in 0 .. n /\ i \in 0 .. n
        BY <1>1
      <4> QED BY <1>2, <1>8, <2>3, <4>1 DEF IsReply
    <3>2. m \in Names
      BY <1>1
    <3> HIDE DEF n, m
    <3>3. Entry(f, s.p).next = pos[i] /\ Entry(f, s.p).name = m
          /\ Entry(f, s.p).mtime = stamp[m]
      <4> DEFINE q == pos[i - 1]
      <4>1. q \in Nat \ {0} /\ Holds(f, q, Sent(m, more))
        BY <3>1
      <4> HIDE DEF q
      <4>2. IsEntry(f, q, m, more)
        BY <3>2, <4>1, EntryRead
      <4> QED BY <3>1, <4>2 DEF q, IsEntry
    <3>4. s \in S /\ ~s.err
      BY <1>8
    <3>5. CASE m \notin Uploads
      <4>1. With(s) = [s EXCEPT !.p = pos[i]]
        BY <2>3, <3>1, <3>3, <3>4, <3>5
      <4>2. /\ With(s) \in S /\ With(s).p = pos[i] /\ With(s).entries = s.entries
            /\ With(s).truncated = s.truncated /\ With(s).err = s.err
        BY <3>1, <3>4, <4>1
      <4> HIDE DEF S, Es, With, x
      <4> QED BY <1>8, <2>1, <2>3, <3>5, <4>2
    <3>6. CASE m \in Uploads /\ Cardinality(s.entries) = ListCap
      <4>1. With(s) = [s EXCEPT !.truncated = TRUE]
        BY <2>3, <3>1, <3>3, <3>4, <3>6
      <4>2. /\ With(s) \in S /\ With(s).entries = s.entries
            /\ With(s).truncated = TRUE /\ With(s).err = s.err
        BY <3>4, <4>1
      <4> HIDE DEF S, Es, With, x
      <4> QED BY <1>8, <2>1, <3>6, <4>2
    <3>7. CASE m \in Uploads /\ Cardinality(s.entries) # ListCap
      <4>1. With(s) = [s EXCEPT !.p = pos[i], !.entries = @ \cup {x}]
        BY <2>3, <3>1, <3>3, <3>4, <3>7 DEF EntryOf
      <4>2. x \in Entries
        BY <3>2, <3>7 DEF EntryOf, Entries, DirTypes
      <4>3. /\ With(s) \in S /\ With(s).p = pos[i] /\ With(s).entries = s.entries \cup {x}
            /\ With(s).truncated = s.truncated /\ With(s).err = s.err
        <5> HIDE DEF x, With
        <5>1. s.entries \cup {x} \in SUBSET Entries /\ pos[i] \in Nat
          BY <3>1, <3>4, <4>2
        <5> DEFINE es == s.entries \cup {x}
        <5> HIDE DEF es
        <5>2. With(s) = [s EXCEPT !.p = pos[i], !.entries = es]
          BY <4>1 DEF es
        <5>3. /\ With(s) \in S /\ With(s).p = pos[i] /\ With(s).entries = es
              /\ With(s).truncated = s.truncated /\ With(s).err = s.err
          BY <3>4, <5>1, <5>2 DEF es
        <5> QED BY <5>3 DEF es
      <4> HIDE DEF S, Es, With, x
      <4>4. /\ IsFiniteSet(s.entries \cup {x}) /\ Cardinality(s.entries) \in Nat
            /\ Cardinality(s.entries \cup {x}) \in {Cardinality(s.entries),
                                                    Cardinality(s.entries) + 1}
        BY <1>8, FS_AddElement, FS_CardinalityType
      <4>5. Cardinality(s.entries \cup {x}) <= ListCap
        BY <1>8, <3>7, <4>4, RetentionAssumption
      <4> QED BY <1>8, <2>1, <2>3, <3>7, <4>3, <4>4, <4>5
    <3> QED BY <3>5, <3>6, <3>7
  <2> QED BY <2>2, <2>3
<1>9. \A s : \A i \in 0 .. n : Good(s, i) => s \in S
  OBVIOUS
<1> HIDE DEF With, base, Good, S
<1>10. \E g : g = [i \in 0 .. n |-> Body(g, i)]
  <2> DEFINE step == [i \in 1 .. n |-> [s \in S |-> IF With(s) \in S THEN With(s) ELSE s]]
  <2>1. \A i \in 1 .. n, s \in S : With(s) \in S => step[i][s] = With(s)
    OBVIOUS
  <2>2. step \in [1 .. n -> [S -> S]]
    OBVIOUS
  <2> HIDE DEF step, n
  <2>3. base \in S
    BY <1>1, <1>7, <1>9
  <2>4. PICK g : IsLoop(g, n, S, base, step)
    BY <1>1, <2>2, <2>3, LoopExists
  <2>5. /\ g \in [0 .. n -> S] /\ g[0] = base
        /\ \A i \in 1 .. n : g[i] = step[i][g[i - 1]]
    BY <2>4 DEF IsLoop
  <2> DEFINE good == {i \in 0 .. n : Good(g[i], i)}
  <2>6. 0 \in good
    BY <1>1, <1>7, <2>5
  <2>7. ASSUME NEW i \in 1 .. n, i - 1 \in good PROVE i \in good /\ g[i] = With(g[i - 1])
    <3>1. Good(g[i - 1], i - 1) /\ i \in 0 .. n /\ i - 1 \in 0 .. n
      BY <1>1, <2>7
    <3>2. Good(With(g[i - 1]), i)
      BY <1>8, <3>1
    <3>3. With(g[i - 1]) \in S /\ g[i - 1] \in S
      BY <1>9, <3>1, <3>2
    <3>4. g[i] = With(g[i - 1])
      BY <2>1, <2>5, <3>3
    <3> QED BY <3>1, <3>2, <3>4
  <2>8. \A i \in 0 .. n : i \in good
    <3> HIDE DEF good
    <3> QED BY <1>1, <2>6, <2>7, UpTo
  <2>9. ASSUME NEW i \in 0 .. n PROVE g[i] = Body(g, i)
    <3>1. CASE i = 0
      BY <1>6, <2>5, <3>1
    <3>2. CASE i # 0
      <4>1. i \in 1 .. n /\ i - 1 \in 0 .. n
        BY <1>1, <3>2
      <4> HIDE DEF good
      <4>2. g[i] = With(g[i - 1])
        BY <2>7, <2>8, <4>1
      <4> QED BY <1>6, <3>2, <4>2
    <3> QED BY <3>1, <3>2
  <2>10. g = [i \in 0 .. n |-> Body(g, i)]
    BY <2>5, <2>9
  <2> QED BY <2>10
<1>11. at = [i \in 0 .. n |-> Body(at, i)]
  <2>1. at = [i \in 0 .. count |-> Body(at, i)]
    <3>1. \E g : g = [i \in 0 .. count |-> Body(g, i)]
      BY <1>5, <1>10
    <3> QED BY <3>1, Zenon DEF at, Body
  <2> QED BY <1>5, <2>1
<1> DEFINE good == {i \in 0 .. n : Good(at[i], i)}
<1>12. 0 \in good
  <2> HIDE DEF n
  <2>1. 0 \in 0 .. n
    BY <1>1
  <2>2. at[0] = base
    BY <1>6, <1>11, <2>1
  <2> QED BY <1>7, <2>1, <2>2, Zenon
<1>13. ASSUME NEW i \in 1 .. n, i - 1 \in good PROVE i \in good
  <2>1. i \in 0 .. n /\ i # 0 /\ Good(at[i - 1], i - 1)
    BY <1>1, <1>13
  <2>2. at[i] = With(at[i - 1])
    <3> HIDE DEF n
    <3> QED BY <1>6, <1>11, <2>1
  <2>3. Good(With(at[i - 1]), i)
    BY <1>8, <2>1
  <2> QED BY <2>1, <2>2, <2>3, Zenon
<1>14. Good(at[n], n)
  <2> HIDE DEF n
  <2>1. \A i \in 0 .. n : i \in good
    <3> HIDE DEF good
    <3> QED BY <1>1, <1>12, <1>13, UpTo
  <2>2. n \in 0 .. n
    BY <1>1
  <2> QED BY <2>1, <2>2
<1>15. Es(n) = {EntryOf(m) : m \in names \cap Uploads}
  <2> HIDE DEF n
  <2>1. ASSUME NEW e \in Es(n) PROVE e \in {EntryOf(m) : m \in names \cap Uploads}
    BY <1>1, <2>1
  <2>2. ASSUME NEW m \in names \cap Uploads PROVE EntryOf(m) \in Es(n)
    <3>1. PICK i \in 1 .. n : order[i] = m
      BY <1>1
    <3>2. i \in {j \in 1 .. n : order[j] \in Uploads}
      BY <3>1
    <3> QED BY <3>1, <3>2
  <2> QED BY <2>1, <2>2
<1>16. TakeEntries(f, entries0) = at[n]
  BY <1>4, <1>5
<1> HIDE DEF Es, n
<1> QED BY <1>14, <1>15, <1>16 DEF Takes, Good, S, f

-----------------------------------------------------------------------------
(* The decision.                                                           *)

Timed(entries)    == {e \in entries : e.mtime # NoTime}
NewerOf(e, timed) == {x \in timed : NewerFirst(x, e)}

LEMMA NewerIsAnOrder ==
  ASSUME NEW timed, \A e \in timed : e \in Entries /\ e.mtime # NoTime
  PROVE  /\ \A a \in timed : ~NewerFirst(a, a)
         /\ \A a, b \in timed : a = b \/ NewerFirst(a, b) \/ NewerFirst(b, a)
         /\ \A a, b, c \in timed : NewerFirst(a, b) /\ NewerFirst(b, c) => NewerFirst(a, c)
<1>1. ASSUME NEW e \in timed PROVE e.mtime \in Nat /\ e.name \in Nat
  BY RetentionAssumption DEF Entries
<1>2. ASSUME NEW a \in timed, NEW b \in timed, a.name = b.name, a.mtime = b.mtime
      PROVE  a = b
  BY <1>2 DEF Entries
<1>3. \A a \in timed : ~NewerFirst(a, a)
  BY <1>1 DEF NewerFirst
<1>4. ASSUME NEW a \in timed, NEW b \in timed, a # b
      PROVE  NewerFirst(a, b) \/ NewerFirst(b, a)
  BY <1>1, <1>2, <1>4 DEF NewerFirst
<1>5. ASSUME NEW a \in timed, NEW b \in timed, NEW c \in timed,
             NewerFirst(a, b), NewerFirst(b, c)
      PROVE  NewerFirst(a, c)
  <2>1. /\ a.mtime \in Nat /\ b.mtime \in Nat /\ c.mtime \in Nat
        /\ a.name \in Nat /\ b.name \in Nat /\ c.name \in Nat
    BY <1>1
  <2> QED BY <1>5, <2>1 DEF NewerFirst
<1> QED BY <1>3, <1>4, <1>5

(* The place of an entry is the number of those that are newer, and each
   place is taken.                                                         *)
LEMMA SortExists ==
  ASSUME NEW timed, IsFiniteSet(timed), \A e \in timed : e \in Entries /\ e.mtime # NoTime
  PROVE  \E s \in [1 .. Cardinality(timed) -> timed] :
           \A i, j \in DOMAIN s : i < j => NewerFirst(s[i], s[j])
<1> DEFINE n == Cardinality(timed)
           Below(e) == NewerOf(e, timed)
           place == [e \in timed |-> Cardinality(Below(e)) + 1]
<1>1. n \in Nat
  BY FS_CardinalityType
<1>2. /\ \A a \in timed : ~NewerFirst(a, a)
      /\ \A a, b \in timed : a = b \/ NewerFirst(a, b) \/ NewerFirst(b, a)
      /\ \A a, b, c \in timed : NewerFirst(a, b) /\ NewerFirst(b, c) => NewerFirst(a, c)
  BY NewerIsAnOrder
<1>3. ASSUME NEW e \in timed
      PROVE  IsFiniteSet(Below(e)) /\ Cardinality(Below(e)) \in Nat /\ Cardinality(Below(e)) < n
  <2>1. Below(e) \in SUBSET timed /\ Below(e) # timed
    BY <1>2 DEF NewerOf
  <2> HIDE DEF Below
  <2>2. /\ IsFiniteSet(Below(e)) /\ Cardinality(Below(e)) <= n /\ Cardinality(Below(e)) # n
        /\ Cardinality(Below(e)) \in Nat
    BY <2>1, FS_Subset, FS_CardinalityType
  <2> QED BY <1>1, <2>2
<1>4. ASSUME NEW a \in timed, NEW b \in timed, NewerFirst(a, b)
      PROVE  place[a] < place[b]
  <2>1. Below(a) \in SUBSET Below(b) /\ a \in Below(b) /\ a \notin Below(a)
    BY <1>2, <1>4 DEF NewerOf
  <2> HIDE DEF Below
  <2>2. Cardinality(Below(a)) <= Cardinality(Below(b))
        /\ Cardinality(Below(a)) # Cardinality(Below(b))
    BY <1>3, <2>1, FS_Subset
  <2>3. Cardinality(Below(a)) \in Nat /\ Cardinality(Below(b)) \in Nat
    BY <1>3
  <2>4. Cardinality(Below(a)) + 1 < Cardinality(Below(b)) + 1
    BY <2>2, <2>3
  <2> QED BY <2>4
<1>5. place \in [timed -> 1 .. n]
  <2> HIDE DEF n, Below
  <2> QED BY <1>1, <1>3
<1> HIDE DEF place, Below
<1>6. place \in Injection(timed, 1 .. n)
  <2>1. ASSUME NEW a \in timed, NEW b \in timed, place[a] = place[b] PROVE a = b
    <3>1. place[a] \in Nat /\ place[b] \in Nat
      BY <1>5
    <3> QED BY <1>2, <1>4, <2>1, <3>1
  <2> QED BY <1>5, <2>1 DEF Injection, IsInjective
<1>7. \A i \in 1 .. n : \E e \in timed : place[e] = i
  <2>1. IsFiniteSet(1 .. n) /\ Cardinality(1 .. n) = n
    BY <1>1, FS_Interval
  <2>2. place \in Surjection(timed, 1 .. n)
    BY <1>6, <2>1, FS_Injection
  <2> QED BY <2>2 DEF Surjection
<1> DEFINE s == [i \in 1 .. n |-> CHOOSE e \in timed : place[e] = i]
<1> HIDE DEF n
<1>8. s \in [1 .. n -> timed] /\ \A i \in 1 .. n : place[s[i]] = i
  BY <1>7
<1> HIDE DEF s
<1>9. ASSUME NEW i \in 1 .. n, NEW j \in 1 .. n, i < j PROVE NewerFirst(s[i], s[j])
  <2>1. /\ s[i] \in timed /\ s[j] \in timed /\ place[s[i]] = i /\ place[s[j]] = j
        /\ ~(j < i) /\ i # j
    BY <1>1, <1>8, <1>9
  <2> QED BY <1>2, <1>4, <2>1
<1>10. DOMAIN s = 1 .. n
  BY <1>8
<1> QED BY <1>8, <1>9, <1>10 DEF n

(* The entries with a time, newest first, each of them once.               *)
LEMMA SortedIs ==
  ASSUME NEW entries \in SUBSET Entries, IsFiniteSet(entries)
  PROVE  LET s == Sorted(entries)
             n == Cardinality(Timed(entries))
         IN /\ n \in Nat /\ s \in Seq(Timed(entries)) /\ Len(s) = n
            /\ \A i, j \in 1 .. n : i < j => NewerFirst(s[i], s[j])
            /\ \A e \in Timed(entries) : \E i \in 1 .. n : s[i] = e
            /\ \A i, j \in 1 .. n : s[i] = s[j] => i = j
<1> DEFINE timed == Timed(entries)
           s == Sorted(entries)
           n == Cardinality(timed)
<1>1. IsFiniteSet(timed) /\ \A e \in timed : e \in Entries /\ e.mtime # NoTime
  <2>1. timed \in SUBSET entries
    BY DEF Timed
  <2> QED BY <2>1, FS_Subset DEF Timed
<1>2. n \in Nat
  BY <1>1, FS_CardinalityType
<1> HIDE DEF timed
<1>3. \E t \in [1 .. n -> timed] : \A i, j \in DOMAIN t : i < j => NewerFirst(t[i], t[j])
  BY <1>1, SortExists
<1>4. s = CHOOSE t \in [1 .. n -> timed] :
            \A i, j \in DOMAIN t : i < j => NewerFirst(t[i], t[j])
  BY DEF Sorted, timed, Timed
<1> HIDE DEF s, n
<1>5. s \in [1 .. n -> timed] /\ \A i, j \in DOMAIN s : i < j => NewerFirst(s[i], s[j])
  BY <1>3, <1>4, Zenon
<1>6. s \in Seq(timed) /\ Len(s) = n /\ DOMAIN s = 1 .. n
  BY <1>2, <1>5
<1>7. ASSUME NEW i \in 1 .. n, NEW j \in 1 .. n, s[i] = s[j] PROVE i = j
  <2>1. s[i] \in timed /\ ~NewerFirst(s[i], s[i])
    BY <1>1, <1>5, NewerIsAnOrder
  <2>2. ~(i < j) /\ ~(j < i)
    BY <1>5, <1>6, <1>7, <2>1
  <2> QED BY <1>2, <2>2
<1>8. s \in Surjection(1 .. n, timed)
  <2>1. s \in Injection(1 .. n, timed)
    BY <1>5, <1>6, <1>7 DEF Injection, IsInjective
  <2>2. IsFiniteSet(1 .. n) /\ Cardinality(1 .. n) = n
    BY <1>2, FS_Interval
  <2> QED BY <1>1, <2>1, <2>2, FS_Injection DEF n
<1> QED BY <1>2, <1>5, <1>6, <1>7, <1>8 DEF s, n, timed, Surjection

(* The reasons an entry of a listing may be planned for.                   *)
Reasoned(e, entries, now, policy) ==
  /\ e.mtime # NoTime
  /\ \/ policy.age > 0 /\ now > e.mtime + policy.age
     \/ policy.keep > 0 /\ Cardinality(NewerOf(e, Timed(entries))) >= policy.keep

LEMMA TooOldIs ==
  ASSUME NEW e \in Entries, e.mtime # NoTime, NEW policy \in Policies, NEW now \in Times
  PROVE  TooOld(e, policy, now) <=> now > e.mtime + policy.age
<1>1. /\ e.mtime \in Nat /\ now \in Nat /\ policy.age \in Nat /\ Wrap \in Nat
      /\ now < Wrap
  BY RetentionAssumption DEF Entries
<1>2. CASE now >= e.mtime
  <2>1. now - e.mtime \in 0 .. Wrap - 1
    BY <1>1, <1>2
  <2>2. (now - e.mtime) % Wrap = now - e.mtime
    <3>1. \A x \in Nat, w \in Nat \ {0} : x < w => x % w = x
      OBVIOUS
    <3>2. now - e.mtime \in Nat /\ now - e.mtime < Wrap /\ Wrap \in Nat \ {0}
      BY <1>1, <2>1
    <3> QED BY <3>1, <3>2
  <2> QED BY <1>1, <1>2, <2>2 DEF TooOld, Since
<1>3. CASE ~(now >= e.mtime)
  BY <1>1, <1>3 DEF TooOld
<1> QED BY <1>2, <1>3

(* What is left of a listing is within the policy.                         *)
Obeyed(left, now, policy) ==
  /\ policy.keep > 0 => Cardinality(left) <= policy.keep
  /\ policy.age > 0 => \A e \in left : now <= e.mtime + policy.age

(* What PlanRetention chooses has a reason, and what it leaves is within the
   policy.                                                                 *)
LEMMA PlanIs ==
  ASSUME NEW entries \in SUBSET Entries, IsFiniteSet(entries),
         NEW policy \in Policies, NEW now \in Times,
         NEW planned, planned = PlanRetention(entries, FALSE, now, policy)
  PROVE  /\ planned \subseteq entries
         /\ \A e \in planned : Reasoned(e, entries, now, policy)
         /\ Obeyed(Timed(entries) \ planned, now, policy)
<1> DEFINE timed == Timed(entries)
           s == Sorted(entries)
           n == Cardinality(timed)
           old == {e \in entries : policy.age > 0 /\ TooOld(e, policy, now)}
           keep == policy.keep
           rest == SubSeq(s, keep + 1, Len(s))
           surplus == IF keep = 0 THEN {} ELSE Range(rest)
<1>1. /\ n \in Nat /\ s \in Seq(timed) /\ Len(s) = n
      /\ \A i, j \in 1 .. n : i < j => NewerFirst(s[i], s[j])
      /\ \A e \in timed : \E i \in 1 .. n : s[i] = e
      /\ \A i, j \in 1 .. n : s[i] = s[j] => i = j
  BY SortedIs
<1>2. planned = old \cup surplus
  BY DEF PlanRetention
<1>3. keep \in Nat /\ policy.age \in Nat /\ now \in Nat
  BY RetentionAssumption
<1>4. timed \subseteq entries /\ IsFiniteSet(timed) /\ timed \subseteq Entries
      /\ \A e \in timed : e.mtime # NoTime
  BY FS_Subset DEF Timed
<1> HIDE DEF timed, s, n, keep
<1>5. \A i \in 1 .. n : s[i] \in timed
  BY <1>1
<1>6. Range(rest) = {s[k] : k \in keep + 1 .. n}
  <2>1. /\ rest \in Seq(timed) /\ Len(rest) = IF keep + 1 <= n THEN n - (keep + 1) + 1 ELSE 0
        /\ \A i \in 1 .. n - (keep + 1) + 1 : rest[i] = s[keep + 1 + i - 1]
    <3>1. \A i \in keep + 1 .. Len(s) : s[i] \in timed
      BY <1>1, <1>3, <1>5
    <3>2. keep + 1 \in Int /\ Len(s) \in Int
      BY <1>1, <1>3
    <3> QED BY <1>1, <3>1, <3>2, SubSeqProperties
  <2>2. DOMAIN rest = 1 .. Len(rest)
    BY <2>1
  <2> HIDE DEF rest
  <2>3. ASSUME NEW e \in Range(rest) PROVE e \in {s[k] : k \in keep + 1 .. n}
    <3>1. PICK i \in 1 .. Len(rest) : rest[i] = e
      BY <2>2, <2>3 DEF Range
    <3>2. i \in 1 .. n - (keep + 1) + 1 /\ keep + 1 + i - 1 \in keep + 1 .. n
      BY <1>1, <1>3, <2>1, <3>1
    <3> QED BY <2>1, <3>1, <3>2
  <2>4. ASSUME NEW k \in keep + 1 .. n PROVE s[k] \in Range(rest)
    <3>1. /\ k - keep \in 1 .. n - (keep + 1) + 1 /\ k - keep \in 1 .. Len(rest)
          /\ keep + 1 + (k - keep) - 1 = k
      BY <1>1, <1>3, <2>1
    <3>2. rest[k - keep] = s[k]
      BY <2>1, <3>1
    <3> QED BY <2>2, <3>1, <3>2 DEF Range
  <2> QED BY <2>3, <2>4
<1> HIDE DEF rest
<1>7. surplus \subseteq timed
  BY <1>1, <1>3, <1>5, <1>6
<1>8. ASSUME NEW e \in surplus PROVE Reasoned(e, entries, now, policy)
  <2>1. keep > 0 /\ e \in timed
    BY <1>3, <1>7, <1>8
  <2>2. PICK k \in keep + 1 .. n : s[k] = e
    BY <1>6, <1>8
  <2> DEFINE newer == NewerOf(e, timed)
             f == [i \in 1 .. keep |-> s[i]]
  <2>3. \A i \in 1 .. keep : i \in 1 .. n /\ i < k /\ k \in 1 .. n
    BY <1>1, <1>3, <2>2
  <2>4. f \in [1 .. keep -> newer] /\ \A i, j \in 1 .. keep : f[i] = f[j] => i = j
    BY <1>1, <1>5, <2>2, <2>3 DEF NewerOf
  <2>5. f \in Injection(1 .. keep, newer)
    <3> HIDE DEF f, newer
    <3> QED BY <2>4 DEF Injection, IsInjective
  <2>6. IsFiniteSet(newer) /\ Cardinality(newer) \in Nat
    <3>1. newer \in SUBSET timed
      BY DEF NewerOf
    <3> QED BY <1>4, <3>1, FS_Subset, FS_CardinalityType
  <2>7. Cardinality(1 .. keep) = keep
    BY <1>3, <2>1, FS_Interval
  <2> HIDE DEF f, newer
  <2>8. keep <= Cardinality(newer)
    BY <2>5, <2>6, <2>7, FS_Injection
  <2>9. e.mtime # NoTime
    BY <1>4, <2>1
  <2>10. keep > 0 /\ Cardinality(newer) >= keep
    BY <1>3, <2>1, <2>6, <2>8
  <2> QED BY <2>9, <2>10 DEF Reasoned, newer, timed, keep
<1>9. ASSUME NEW e \in old PROVE Reasoned(e, entries, now, policy)
  <2>1. e \in Entries /\ e.mtime # NoTime /\ policy.age > 0
    BY DEF TooOld
  <2> QED BY <1>9, <2>1, TooOldIs DEF Reasoned
<1>10. keep > 0 => Cardinality(timed \ planned) <= keep
  <2> SUFFICES ASSUME keep > 0 PROVE Cardinality(timed \ planned) <= keep
    OBVIOUS
  <2> DEFINE kept == timed \ planned
             place == [e \in kept |-> CHOOSE i \in 1 .. n : s[i] = e]
  <2>1. ASSUME NEW e \in kept
        PROVE  place[e] \in 1 .. keep /\ s[place[e]] = e
    <3>1. place[e] \in 1 .. n /\ s[place[e]] = e
      BY <1>1
    <3>2. place[e] \notin keep + 1 .. n
      <4>1. e \notin Range(rest)
        <5>1. e \notin surplus
          BY <1>2
        <5>2. keep # 0
          BY <1>3
        <5> QED BY <5>1, <5>2
      <4> HIDE DEF place
      <4> QED BY <1>6, <3>1, <4>1
    <3> HIDE DEF place
    <3> QED BY <1>1, <1>3, <3>1, <3>2
  <2>2. place \in [kept -> 1 .. keep] /\ \A a, b \in kept : place[a] = place[b] => a = b
    <3>1. \A e \in kept : place[e] \in 1 .. keep
      BY <2>1
    <3>2. ASSUME NEW a \in kept, NEW b \in kept, place[a] = place[b] PROVE a = b
      <4>1. s[place[a]] = a /\ s[place[b]] = b
        BY <2>1
      <4> HIDE DEF place
      <4> QED BY <3>2, <4>1
    <3> HIDE DEF kept
    <3> QED BY <3>1, <3>2
  <2> HIDE DEF place, kept
  <2>3. place \in Injection(kept, 1 .. keep)
    BY <2>2 DEF Injection, IsInjective
  <2>4. IsFiniteSet(1 .. keep) /\ Cardinality(1 .. keep) = keep
    <3>1. keep \in Int /\ 1 \in Int /\ ~(1 > keep) /\ keep - 1 + 1 = keep
      BY <1>3
    <3> QED BY <3>1, FS_Interval
  <2>5. Cardinality(kept) <= keep
    BY <2>3, <2>4, FS_Injection
  <2> QED BY <2>5 DEF kept
<1>11. policy.age > 0 => \A e \in timed \ planned : now <= e.mtime + policy.age
  <2> SUFFICES ASSUME policy.age > 0, NEW e \in timed \ planned
               PROVE  now <= e.mtime + policy.age
    OBVIOUS
  <2>1. e \in entries /\ e \in Entries /\ e.mtime # NoTime /\ e.mtime \in Nat
    BY <1>4, RetentionAssumption DEF Entries
  <2>2. ~TooOld(e, policy, now)
    BY <1>2, <2>1
  <2>3. ~(now > e.mtime + policy.age)
    BY <2>1, <2>2, TooOldIs
  <2> QED BY <1>3, <2>1, <2>3
<1>12. planned \subseteq entries
  BY <1>2, <1>4, <1>7
<1>13. Obeyed(Timed(entries) \ planned, now, policy)
  BY <1>10, <1>11 DEF Obeyed, timed, keep
<1> QED BY <1>2, <1>8, <1>9, <1>12, <1>13

-----------------------------------------------------------------------------
(* The pass.                                                               *)

LEMMA NamesFinite ==
  ASSUME NEW T \in SUBSET Names
  PROVE  IsFiniteSet(T) /\ Cardinality(T) \in Nat
BY RetentionAssumption, FS_Subset, FS_CardinalityType DEF Names

OfNames(entries, T) == entries \subseteq {EntryOf(n) : n \in T \cap Uploads}

LEMMA EntriesOfNames ==
  ASSUME DirTypes, NEW T \in SUBSET Names, NEW entries, OfNames(entries, T)
  PROVE  /\ entries \in SUBSET Entries /\ IsFiniteSet(entries) /\ Cardinality(entries) \in Nat
         /\ \A e \in entries : e.name \in T \cap Uploads /\ e = EntryOf(e.name)
<1>1. ASSUME NEW e \in entries
      PROVE  e.name \in T \cap Uploads /\ e = EntryOf(e.name) /\ e \in Entries
  <2>1. PICK n \in T \cap Uploads : e = EntryOf(n)
    BY DEF OfNames
  <2>2. e.name = n /\ n \in Names
    BY <2>1 DEF EntryOf
  <2> QED BY <2>1, <2>2 DEF EntryOf, Entries, DirTypes
<1> DEFINE f == [e \in entries |-> e.name]
<1>2. f \in [entries -> T] /\ \A a, b \in entries : f[a] = f[b] => a = b
  BY <1>1
<1>3. f \in Injection(entries, T)
  <2> HIDE DEF f
  <2> QED BY <1>2 DEF Injection, IsInjective
<1>4. IsFiniteSet(entries)
  BY <1>3, NamesFinite, FS_Injection
<1> QED BY <1>1, <1>4, FS_CardinalityType

LEMMA ListedIs ==
  ASSUME DirTypes, Listed
  PROVE  /\ pass.entries \in SUBSET Entries /\ IsFiniteSet(pass.entries)
         /\ Cardinality(pass.entries) \in Nat
         /\ \A e \in pass.entries :
              e.name \in pass.sent \cap Uploads /\ e = EntryOf(e.name)
<1>1. pass.sent \in SUBSET Names
  BY DEF DirTypes
<1>2. OfNames(pass.entries, pass.sent)
  BY DEF Listed, OfNames
<1> QED BY <1>1, <1>2, EntriesOfNames

(* A reason in the listing is one on the server.                           *)
LEMMA ReasonIsTrue ==
  ASSUME DirTypes, Listed, NEW e \in pass.entries,
         Reasoned(e, pass.entries, pass.now, pass.policy)
  PROVE  RemovalJustified(e.name)
<1> DEFINE n == e.name
           Newer(m) == stamp[m] # NoTime
                         /\ (stamp[m] > stamp[n] \/ (stamp[m] = stamp[n] /\ m > n))
           others0 == {m \in used \cap Uploads : Newer(m)}
           newer == NewerOf(e, Timed(pass.entries))
           f == [x \in newer |-> x.name]
<1>1. n \in pass.sent \cap Uploads /\ e.mtime = stamp[n] /\ e.name = n
  BY ListedIs DEF EntryOf
<1>2. stamp[n] # NoTime
  BY <1>1 DEF Reasoned
<1>3. ASSUME NEW x \in newer
      PROVE  /\ x.name \in others0 /\ x.mtime = stamp[x.name] /\ x = EntryOf(x.name)
  <2>1. x \in pass.entries /\ x.mtime # NoTime /\ NewerFirst(x, e)
    BY DEF NewerOf, Timed
  <2>2. x.name \in pass.sent \cap Uploads /\ x = EntryOf(x.name) /\ x.mtime = stamp[x.name]
    BY <2>1, ListedIs DEF EntryOf
  <2>3. Newer(x.name)
    BY <1>1, <2>1, <2>2 DEF NewerFirst
  <2>4. x.name \in used
    BY <2>2 DEF DirTypes
  <2> HIDE DEF Newer
  <2> QED BY <2>2, <2>3, <2>4
<1>4. f \in [newer -> others0] /\ \A x, y \in newer : f[x] = f[y] => x = y
  <2> HIDE DEF newer, others0
  <2> QED BY <1>3
<1>5. f \in Injection(newer, others0)
  <2> HIDE DEF f, newer, others0
  <2> QED BY <1>4 DEF Injection, IsInjective
<1>6. IsFiniteSet(others0) /\ Cardinality(others0) \in Nat
  <2>1. others0 \in SUBSET Names
    BY DEF DirTypes
  <2> QED BY <2>1, NamesFinite
<1>7. Cardinality(newer) <= Cardinality(others0) /\ Cardinality(newer) \in Nat
  BY <1>5, <1>6, FS_Injection, FS_CardinalityType
<1>8. /\ pass.policy.keep \in Nat /\ pass.policy.age \in Nat /\ pass.now \in Nat
      /\ stamp[n] \in Nat
  <2>1. pass.policy \in Policies /\ pass.now \in Times /\ n \in Names
    BY <1>1 DEF DirTypes, Passes, Names
  <2> QED BY <1>2, <2>1, RetentionAssumption DEF DirTypes
<1>9. \/ pass.policy.age > 0 /\ pass.now > stamp[n] + pass.policy.age
      \/ pass.policy.keep > 0 /\ Cardinality(newer) >= pass.policy.keep
  BY <1>1 DEF Reasoned
<1>10. Cardinality(newer) >= pass.policy.keep => Cardinality(others0) >= pass.policy.keep
  BY <1>6, <1>7, <1>8
<1> HIDE DEF newer, f
<1> QED BY <1>1, <1>2, <1>9, <1>10 DEF RemovalJustified

(* It stays one.                                                           *)
LEMMA StaysJustified ==
  ASSUME DirTypes, DirTypes', UNCHANGED stamp, used \subseteq used',
         pass'.policy = pass.policy, pass'.now = pass.now,
         NEW n, RemovalJustified(n)
  PROVE  RemovalJustified(n)'
<1> DEFINE Newer(m) == stamp[m] # NoTime
                         /\ (stamp[m] > stamp[n] \/ (stamp[m] = stamp[n] /\ m > n))
           before == {m \in used \cap Uploads : Newer(m)}
           after  == {m \in used' \cap Uploads : Newer(m)}
<1>1. before \in SUBSET after /\ after \in SUBSET Names
  BY DEF DirTypes
<1>2. Cardinality(before) <= Cardinality(after) /\ Cardinality(after) \in Nat
      /\ Cardinality(before) \in Nat
  <2> HIDE DEF before, after
  <2>1. before \in SUBSET Names
    BY <1>1
  <2> QED BY <1>1, <2>1, NamesFinite, FS_Subset
<1>3. pass.policy.keep \in Nat
  BY RetentionAssumption DEF DirTypes, Passes
<1>4. Cardinality(before) >= pass.policy.keep => Cardinality(after) >= pass.policy.keep
  <2> HIDE DEF before, after
  <2> QED BY <1>2, <1>3
<1>5. /\ n \in Uploads /\ stamp[n] # NoTime
      /\ \/ pass.policy.age > 0 /\ pass.now > stamp[n] + pass.policy.age
         \/ pass.policy.keep > 0 /\ Cardinality(before) >= pass.policy.keep
  BY DEF RemovalJustified
<1> QED BY <1>4, <1>5 DEF RemovalJustified

LEMMA DirStarts == Init => DirInv
<1> SUFFICES ASSUME Init PROVE DirInv
  OBVIOUS
<1>1. /\ stamp \in [Names -> Times \cup {NoTime}] /\ used = present /\ atOpen = {}
      /\ present \in {Foreign \cup s : s \in SUBSET Uploads}
  BY DEF Init, DirInit
<1>2. PICK policy \in Policies, now \in Times :
        pass = [stage |-> "open", policy |-> policy, now |-> now, sent |-> {},
                entries |-> {}, truncated |-> FALSE, err |-> FALSE, done |-> FALSE,
                plan |-> {}, removed |-> 0, failed |-> 0]
  BY DEF Init, DirInit
<1>3. DirTypes
  BY <1>1, <1>2 DEF DirTypes, Passes, Names
<1>4. Listed
  <2>1. Cardinality({}) = 0 /\ 0 <= ListCap
    BY FS_EmptySet, RetentionAssumption
  <2>2. {EntryOf(n) : n \in {} \cap Uploads} = {}
    OBVIOUS
  <2> QED BY <1>2, <2>1, <2>2 DEF Listed
<1>5. Carried
  BY <1>2 DEF Carried, Acting
<1> QED BY <1>3, <1>4, <1>5 DEF DirInv

(* A step of the listing: the directory is what it was, and nothing has been
   decided yet.                                                            *)
LEMMA ListingKeeps ==
  ASSUME DirInv, UNCHANGED <<stamp, present, used, others>>, atOpen' \subseteq used,
         pass' \in Passes, pass'.sent \subseteq used,
         pass.stage \in {"open", "list"}, pass'.stage = "list" \/ pass'.err,
         pass'.stage \in {"list", "ended"},
         pass'.entries \subseteq {EntryOf(n) : n \in pass'.sent \cap Uploads},
         ~pass'.truncated => pass'.entries = {EntryOf(n) : n \in pass'.sent \cap Uploads},
         Cardinality(pass'.entries) <= ListCap,
         pass'.done => atOpen' \cap present \subseteq pass'.sent,
         pass'.plan = pass.plan, pass'.removed = pass.removed, pass'.failed = pass.failed
  PROVE  DirInv'
<1>1. DirTypes'
  BY DEF DirInv, DirTypes
<1>2. pass.plan = {} /\ pass.removed = 0 /\ pass.failed = 0
  BY DEF DirInv, Listed
<1>3. \A n : EntryOf(n)' = EntryOf(n)
  BY DEF EntryOf
<1>4. {EntryOf(n) : n \in pass'.sent \cap Uploads}
        = {EntryOf(n)' : n \in pass'.sent \cap Uploads}
  BY <1>3
<1>5. Listed'
  BY <1>2, <1>4 DEF Listed
<1>6. Carried'
  BY <1>2 DEF Carried, Acting
<1> QED BY <1>1, <1>5, <1>6 DEF DirInv

LEMMA OpenDirKeeps ==
  ASSUME DirInv, NEW end, OpenDir(end)
  PROVE  DirInv'
<1>1. /\ pass.stage = "open" /\ UNCHANGED <<stamp, present, used, others>>
      /\ atOpen' \in {atOpen, present}
      /\ \/ pass' = [pass EXCEPT !.stage = "list"]
         \/ pass' = [pass EXCEPT !.stage = "ended", !.err = TRUE] /\ atOpen' = atOpen
  BY DEF OpenDir
<1>2. DirTypes /\ Listed
  BY DEF DirInv
<1>3. /\ pass' \in Passes /\ pass'.stage \in {"list", "ended"}
      /\ pass'.stage = "list" \/ pass'.err
      /\ pass'.sent = pass.sent /\ pass'.entries = pass.entries
      /\ pass'.truncated = pass.truncated /\ pass'.done = pass.done /\ pass'.plan = pass.plan
      /\ pass'.removed = pass.removed /\ pass'.failed = pass.failed
  BY <1>1, <1>2 DEF DirTypes, Passes
<1>4. atOpen' \subseteq used /\ pass'.sent \subseteq used
  BY <1>1, <1>2, <1>3 DEF DirTypes
<1>5. /\ pass'.entries \subseteq {EntryOf(n) : n \in pass'.sent \cap Uploads}
      /\ ~pass'.truncated => pass'.entries = {EntryOf(n) : n \in pass'.sent \cap Uploads}
      /\ Cardinality(pass'.entries) <= ListCap
      /\ pass'.done => atOpen' \cap present \subseteq pass'.sent
  BY <1>1, <1>2, <1>3 DEF Listed
<1> QED BY <1>1, <1>3, <1>4, <1>5, ListingKeeps

LEMMA ReadNamesKeeps ==
  ASSUME DirInv, ReadNames
  PROVE  DirInv'
<1>1. PICK names \in SUBSET (present \ pass.sent), more \in {{}, AttrGroups \ {"times"}} :
        /\ Cardinality(names) \in 1 .. FrameSize
        /\ LET took == TakeEntries(NameReply(names, more), pass.entries)
           IN pass' = [pass EXCEPT !.sent = @ \cup names, !.entries = took.entries,
                                   !.truncated = took.truncated, !.err = took.err]
  BY DEF ReadNames
<1> DEFINE took == TakeEntries(NameReply(names, more), pass.entries)
<1>2. /\ pass.stage = "list" /\ ~pass.err /\ ~pass.truncated /\ ~pass.done
      /\ UNCHANGED <<stamp, present, used, others, atOpen>>
  BY DEF ReadNames, Listing
<1>3. DirTypes /\ Listed
  BY DEF DirInv
<1>4. /\ names \in SUBSET Names /\ names \subseteq used /\ IsFiniteSet(names) /\ names # {}
      /\ pass.entries \in SUBSET Entries /\ IsFiniteSet(pass.entries)
      /\ Cardinality(pass.entries) <= ListCap
  <2>1. names \in SUBSET Names /\ names \subseteq used
    BY <1>3 DEF DirTypes
  <2>2. IsFiniteSet(names) /\ names # {}
    BY <1>1, <2>1, NamesFinite, FS_EmptySet
  <2> QED BY <1>3, <2>1, <2>2, ListedIs DEF Listed
<1>5. Takes(took, pass.entries, names)
  BY <1>3, <1>4, ReplyTaken
<1>6. pass' = [pass EXCEPT !.sent = pass.sent \cup names, !.entries = took.entries,
                           !.truncated = took.truncated, !.err = took.err]
  BY <1>1
<1> HIDE DEF took
<1> DEFINE all == {EntryOf(n) : n \in (pass.sent \cup names) \cap Uploads}
<1>7. pass.entries \cup {EntryOf(n) : n \in names \cap Uploads} = all
  BY <1>2, <1>3 DEF Listed
<1>8. /\ took.entries \subseteq all
      /\ ~took.truncated => took.entries = all
      /\ Cardinality(took.entries) <= ListCap /\ took.truncated \in BOOLEAN /\ took.err = FALSE
  BY <1>5, <1>7 DEF Takes
<1>9. took.entries \in SUBSET Entries /\ pass.sent \cup names \in SUBSET Names
      /\ pass.sent \cup names \subseteq used
  <2>1. pass.sent \cup names \in SUBSET Names /\ pass.sent \cup names \subseteq used
    BY <1>3, <1>4 DEF DirTypes
  <2> DEFINE T == pass.sent \cup names
  <2>2. OfNames(took.entries, T)
    <3>1. took.entries \subseteq all
      BY <1>8
    <3>2. all = {EntryOf(n) : n \in T \cap Uploads}
      OBVIOUS
    <3> HIDE DEF all, T
    <3>3. took.entries \subseteq {EntryOf(n) : n \in T \cap Uploads}
      BY <3>1, <3>2
    <3> QED BY <3>3 DEF OfNames
  <2> HIDE DEF T
  <2>3. took.entries \in SUBSET Entries
    BY <1>3, <2>1, <2>2, EntriesOfNames DEF T
  <2> QED BY <2>1, <2>3
<1>10. /\ pass' \in Passes /\ pass'.stage = "list" /\ pass'.sent = pass.sent \cup names
       /\ pass'.entries = took.entries /\ pass'.truncated = took.truncated
       /\ pass'.done = pass.done /\ pass'.plan = pass.plan /\ pass'.removed = pass.removed
       /\ pass'.failed = pass.failed
  BY <1>2, <1>3, <1>6, <1>8, <1>9 DEF DirTypes, Passes
<1>11. /\ pass'.entries \subseteq {EntryOf(n) : n \in pass'.sent \cap Uploads}
       /\ ~pass'.truncated => pass'.entries = {EntryOf(n) : n \in pass'.sent \cap Uploads}
       /\ Cardinality(pass'.entries) <= ListCap
       /\ pass'.done => atOpen' \cap present \subseteq pass'.sent
  <2> DEFINE sent == {EntryOf(n) : n \in pass'.sent \cap Uploads}
  <2>1. sent = all
    BY <1>10
  <2> HIDE DEF sent, all
  <2>2. /\ pass'.entries \subseteq sent
        /\ ~pass'.truncated => pass'.entries = sent
        /\ Cardinality(pass'.entries) <= ListCap
        /\ pass'.done => atOpen' \cap present \subseteq pass'.sent
    BY <1>2, <1>8, <1>10, <2>1
  <2> QED BY <2>2 DEF sent
<1>12. pass'.sent \subseteq used /\ atOpen' \subseteq used
  BY <1>2, <1>3, <1>9, <1>10 DEF DirTypes
<1> QED BY <1>2, <1>10, <1>11, <1>12, ListingKeeps

LEMMA ReadEndKeeps ==
  ASSUME DirInv, ReadEnd
  PROVE  DirInv'
<1>1. /\ pass.stage = "list" /\ atOpen \cap present \subseteq pass.sent
      /\ pass' = [pass EXCEPT !.done = TRUE]
      /\ UNCHANGED <<stamp, present, used, others, atOpen>>
  BY DEF ReadEnd, Listing
<1>2. DirTypes /\ Listed
  BY DEF DirInv
<1>3. /\ pass' \in Passes /\ pass'.stage = "list" /\ pass'.sent = pass.sent
      /\ pass'.entries = pass.entries /\ pass'.truncated = pass.truncated
      /\ pass'.plan = pass.plan /\ pass'.removed = pass.removed /\ pass'.failed = pass.failed
  BY <1>1, <1>2 DEF DirTypes, Passes
<1>4. /\ pass'.entries \subseteq {EntryOf(n) : n \in pass'.sent \cap Uploads}
      /\ ~pass'.truncated => pass'.entries = {EntryOf(n) : n \in pass'.sent \cap Uploads}
      /\ Cardinality(pass'.entries) <= ListCap
      /\ atOpen' \cap present \subseteq pass'.sent
  BY <1>1, <1>2, <1>3 DEF Listed
<1>5. pass'.sent \subseteq used /\ atOpen' \subseteq used
  BY <1>1, <1>2, <1>3 DEF DirTypes
<1> QED BY <1>1, <1>3, <1>4, <1>5, ListingKeeps

LEMMA ReadFailsKeeps ==
  ASSUME DirInv, NEW end, ReadFails(end)
  PROVE  DirInv'
<1>1. /\ pass.stage = "list" /\ ~pass.done /\ pass' = [pass EXCEPT !.err = TRUE]
      /\ UNCHANGED <<stamp, present, used, others, atOpen>>
  BY DEF ReadFails, Listing
<1>2. DirTypes /\ Listed
  BY DEF DirInv
<1>3. /\ pass' \in Passes /\ pass'.stage = "list" /\ pass'.sent = pass.sent
      /\ pass'.entries = pass.entries /\ pass'.truncated = pass.truncated
      /\ pass'.done = pass.done
      /\ pass'.plan = pass.plan /\ pass'.removed = pass.removed /\ pass'.failed = pass.failed
  BY <1>1, <1>2 DEF DirTypes, Passes
<1>4. /\ pass'.entries \subseteq {EntryOf(n) : n \in pass'.sent \cap Uploads}
      /\ ~pass'.truncated => pass'.entries = {EntryOf(n) : n \in pass'.sent \cap Uploads}
      /\ Cardinality(pass'.entries) <= ListCap
  BY <1>1, <1>2, <1>3 DEF Listed
<1>5. pass'.sent \subseteq used /\ atOpen' \subseteq used
  BY <1>1, <1>2, <1>3 DEF DirTypes
<1> QED BY <1>1, <1>3, <1>4, <1>5, ListingKeeps

-----------------------------------------------------------------------------
(* What a true listing makes of the policy.                                *)
LEMMA PlannedIs ==
  ASSUME DirTypes, Listed
  PROVE  /\ Planned \subseteq pass.entries /\ Planned \in SUBSET Entries
         /\ IsFiniteSet(Planned) /\ Cardinality(Planned) \in Nat
         /\ \A e \in Planned : e.name \in used /\ RemovalJustified(e.name)
         /\ pass.truncated => Planned = {}
<1>1. /\ pass.entries \in SUBSET Entries /\ IsFiniteSet(pass.entries)
      /\ \A e \in pass.entries : e.name \in pass.sent \cap Uploads
  BY ListedIs
<1>2. pass.policy \in Policies /\ pass.now \in Times /\ pass.truncated \in BOOLEAN
      /\ pass.sent \subseteq used
  BY DEF DirTypes, Passes
<1>3. pass.truncated => Planned = {}
  BY DEF Planned, PlanRetention
<1>4. ~pass.truncated => Planned = PlanRetention(pass.entries, FALSE, pass.now, pass.policy)
  BY <1>2 DEF Planned
<1>5. /\ Planned \subseteq pass.entries
      /\ \A e \in Planned : Reasoned(e, pass.entries, pass.now, pass.policy)
  BY <1>1, <1>2, <1>3, <1>4, PlanIs
<1>6. \A e \in Planned : e.name \in used /\ RemovalJustified(e.name)
  BY <1>1, <1>2, <1>5, ReasonIsTrue
<1>7. IsFiniteSet(Planned) /\ Cardinality(Planned) \in Nat
  BY <1>1, <1>5, FS_Subset, FS_CardinalityType
<1> QED BY <1>1, <1>3, <1>5, <1>6, <1>7

LEMMA CloseDirKeeps ==
  ASSUME DirInv, NEW end, CloseDir(end)
  PROVE  DirInv'
<1>1. /\ pass.stage = "list" /\ (pass.err \/ pass.truncated \/ pass.done)
      /\ UNCHANGED <<stamp, present, used, others, atOpen>>
  BY DEF CloseDir, Listing
<1>2. DirTypes /\ Listed /\ pass.plan = {} /\ pass.removed = 0 /\ pass.failed = 0
  BY <1>1 DEF DirInv, Listed
<1>3. CASE pass' = [pass EXCEPT !.stage = "ended", !.err = TRUE]
  <2>1. /\ pass' \in Passes /\ pass'.stage = "ended" /\ pass'.err /\ pass'.sent = pass.sent
        /\ pass'.entries = pass.entries /\ pass'.truncated = pass.truncated
        /\ pass'.done = pass.done
        /\ pass'.plan = pass.plan /\ pass'.removed = pass.removed /\ pass'.failed = pass.failed
    BY <1>2, <1>3 DEF DirTypes, Passes
  <2>2. /\ pass'.entries \subseteq {EntryOf(n) : n \in pass'.sent \cap Uploads}
        /\ ~pass'.truncated => pass'.entries = {EntryOf(n) : n \in pass'.sent \cap Uploads}
        /\ Cardinality(pass'.entries) <= ListCap
        /\ pass'.done => atOpen' \cap present \subseteq pass'.sent
    BY <1>1, <1>2, <2>1 DEF Listed
  <2>3. pass'.sent \subseteq used /\ atOpen' \subseteq used
    BY <1>1, <1>2, <2>1 DEF DirTypes
  <2> QED BY <1>1, <2>1, <2>2, <2>3, ListingKeeps
<1>4. CASE ~pass.err /\ pass' = [pass EXCEPT !.stage = "remove", !.plan = Planned]
  <2>1. /\ Planned \in SUBSET Entries /\ Cardinality(Planned) \in Nat
        /\ \A e \in Planned : RemovalJustified(e.name)
    BY <1>2, PlannedIs
  <2>2. /\ pass' \in Passes /\ pass'.stage = "remove" /\ pass'.err = pass.err
        /\ pass'.sent = pass.sent /\ pass'.policy = pass.policy /\ pass'.now = pass.now
        /\ pass'.entries = pass.entries /\ pass'.truncated = pass.truncated
        /\ pass'.done = pass.done
        /\ pass'.plan = Planned /\ pass'.removed = 0 /\ pass'.failed = 0
    BY <1>2, <1>4, <2>1 DEF DirTypes, Passes
  <2>3. DirTypes'
    BY <1>1, <1>2, <2>2 DEF DirTypes
  <2>4. Listed'
    BY <1>1, <1>2, <2>2 DEF Listed, EntryOf
  <2>5. Planned' = Planned
    BY <2>2 DEF Planned
  <2>6. \A e \in Planned : RemovalJustified(e.name)'
    BY <1>1, <1>2, <2>1, <2>2, <2>3, StaysJustified
  <2>7. Carried'
    <3>1. 0 + 0 + Cardinality(Planned) <= Cardinality(Planned)
      BY <2>1
    <3> QED BY <1>1, <1>4, <2>2, <2>5, <2>6, <3>1 DEF Carried, Acting
  <2> QED BY <2>3, <2>4, <2>7 DEF DirInv
<1>5. \/ pass' = [pass EXCEPT !.stage = "ended", !.err = TRUE]
      \/ ~pass.err /\ pass' = [pass EXCEPT !.stage = "remove", !.plan = Planned]
  BY DEF CloseDir, Planned
<1> QED BY <1>3, <1>4, <1>5

(* One REMOVE: one entry less to remove, counted one way or the other.     *)
LEMMA RemoveEntryKeeps ==
  ASSUME DirInv, NEW e \in pass.plan, NEW end, RemoveEntry(e, end)
  PROVE  DirInv'
<1> DEFINE rest == pass.plan \ {e}
           ok == IF end = Done THEN 1 ELSE 0
           failed == IF end = Done THEN 0 ELSE 1
<1>1. /\ pass.stage = "remove" /\ UNCHANGED <<stamp, used, others, atOpen>>
      /\ present' = IF end.acts THEN present \ {e.name} ELSE present
      /\ pass' = [pass EXCEPT !.plan = pass.plan \ {e},
                    !.removed = pass.removed + (IF end = Done THEN 1 ELSE 0),
                    !.failed = pass.failed + (IF end = Done THEN 0 ELSE 1)]
  BY DEF RemoveEntry
<1>2. DirTypes /\ Listed /\ ~pass.err /\ Acting
  BY <1>1 DEF DirInv, Carried, Acting
<1>3. /\ pass.truncated \/ pass.done
      /\ pass.plan \subseteq Planned
      /\ pass.removed + pass.failed + Cardinality(pass.plan) <= Cardinality(Planned)
      /\ pass.failed = 0 => \A x \in Planned \ pass.plan : x.name \notin present
      /\ \A x \in pass.plan : RemovalJustified(x.name)
  BY <1>2 DEF DirInv, Carried
<1>4. /\ pass.plan \in SUBSET Entries /\ rest \in SUBSET Entries
      /\ IsFiniteSet(pass.plan) /\ Cardinality(Planned) \in Nat
      /\ Cardinality(pass.plan) \in Nat
      /\ Cardinality(rest) = Cardinality(pass.plan) - 1
  <2>1. Planned \in SUBSET Entries /\ IsFiniteSet(Planned) /\ Cardinality(Planned) \in Nat
    BY <1>2, PlannedIs
  <2>2. IsFiniteSet(pass.plan)
    BY <1>3, <2>1, FS_Subset
  <2> QED BY <1>3, <2>1, <2>2, FS_RemoveElement, FS_CardinalityType
<1>5. /\ pass.removed \in Nat /\ pass.failed \in Nat
      /\ ok \in Nat /\ failed \in Nat /\ ok + failed = 1
  BY <1>2 DEF DirTypes, Passes
<1>6. /\ pass' \in Passes /\ pass'.stage = "remove" /\ pass'.err = pass.err
      /\ pass'.sent = pass.sent /\ pass'.policy = pass.policy /\ pass'.now = pass.now
      /\ pass'.entries = pass.entries /\ pass'.truncated = pass.truncated
      /\ pass'.done = pass.done /\ pass'.plan = rest
      /\ pass'.removed = pass.removed + ok /\ pass'.failed = pass.failed + failed
  <2>1. pass.removed + ok \in Nat /\ pass.failed + failed \in Nat
    BY <1>5
  <2> HIDE DEF ok, failed
  <2>2. pass' = [pass EXCEPT !.plan = rest, !.removed = pass.removed + ok,
                             !.failed = pass.failed + failed]
    BY <1>1 DEF ok, failed
  <2> HIDE DEF rest
  <2> QED BY <1>1, <1>2, <1>4, <2>1, <2>2 DEF DirTypes, Passes
<1>7. present' \subseteq present
  BY <1>1
<1>8. DirTypes'
  BY <1>1, <1>2, <1>6, <1>7 DEF DirTypes
<1>9. Listed'
  BY <1>1, <1>2, <1>6, <1>7 DEF Listed, EntryOf
<1>10. Planned' = Planned
  BY <1>6 DEF Planned
<1>11. \A x \in rest : RemovalJustified(x.name)'
  BY <1>1, <1>2, <1>3, <1>6, <1>8, StaysJustified
<1>12. pass'.failed = 0 => \A x \in Planned \ rest : x.name \notin present'
  <2> SUFFICES ASSUME pass'.failed = 0, NEW x \in Planned \ rest
               PROVE  x.name \notin present'
    OBVIOUS
  <2>1. pass.failed = 0 /\ end = Done
    BY <1>5, <1>6
  <2>2. present' = present \ {e.name}
    BY <1>1, <2>1 DEF Done
  <2> QED BY <1>3, <2>1, <2>2
<1>13. pass'.removed + pass'.failed + Cardinality(rest) <= Cardinality(Planned)
  <2> HIDE DEF ok, failed, rest
  <2> QED BY <1>3, <1>4, <1>5, <1>6
<1>14. Carried'
  <2> HIDE DEF ok, failed
  <2> QED BY <1>3, <1>6, <1>10, <1>11, <1>12, <1>13, <1>2 DEF Carried, Acting
<1> QED BY <1>8, <1>9, <1>14 DEF DirInv

LEMMA ReportKeeps ==
  ASSUME DirInv, Report
  PROVE  DirInv'
<1>1. /\ pass.stage = "remove" /\ pass.plan = {}
      /\ pass' = [pass EXCEPT !.stage = "ended"]
      /\ UNCHANGED <<stamp, present, used, others, atOpen>>
  BY DEF Report
<1>2. DirTypes /\ Listed /\ Carried
  BY DEF DirInv
<1>3. /\ pass' \in Passes /\ pass'.stage = "ended" /\ pass'.err = pass.err
      /\ pass'.sent = pass.sent /\ pass'.policy = pass.policy /\ pass'.now = pass.now
      /\ pass'.entries = pass.entries /\ pass'.truncated = pass.truncated
      /\ pass'.done = pass.done /\ pass'.plan = {}
      /\ pass'.removed = pass.removed /\ pass'.failed = pass.failed
  BY <1>1, <1>2 DEF DirTypes, Passes
<1>4. DirTypes'
  BY <1>1, <1>2, <1>3 DEF DirTypes
<1>5. Listed'
  BY <1>1, <1>2, <1>3 DEF Listed, EntryOf
<1>6. Planned' = Planned
  BY <1>3 DEF Planned
<1>7. Carried'
  BY <1>1, <1>2, <1>3, <1>6 DEF Carried, Acting
<1> QED BY <1>4, <1>5, <1>7 DEF DirInv

(* Others do not bring back a name that is gone.                           *)
LEMMA OthersKeeps ==
  ASSUME DirInv, Others
  PROVE  DirInv'
<1>1. /\ pass.stage \in {"list", "remove"} /\ UNCHANGED <<stamp, atOpen, pass>>
      /\ \/ \E n \in Uploads \ used : present' = present \cup {n} /\ used' = used \cup {n}
         \/ \E n \in present : present' = present \ {n} /\ used' = used
  BY DEF Others
<1>2. DirTypes /\ Listed /\ Carried
  BY DEF DirInv
<1>3. /\ used \subseteq used' /\ present' \subseteq used' /\ used' \subseteq Names
      /\ present' \cap used \subseteq present
  BY <1>1, <1>2 DEF DirTypes, Names
<1>4. DirTypes'
  BY <1>1, <1>2, <1>3 DEF DirTypes
<1>5. Listed'
  <2>1. atOpen \cap present' \subseteq atOpen \cap present
    BY <1>2, <1>3 DEF DirTypes
  <2> QED BY <1>1, <1>2, <2>1 DEF Listed, EntryOf
<1>6. Planned' = Planned
  BY <1>1 DEF Planned
<1>7. \A e \in Planned : e.name \in used
  BY <1>2, PlannedIs
<1>8. \A e : RemovalJustified(e.name) => RemovalJustified(e.name)'
  BY <1>1, <1>2, <1>3, <1>4, StaysJustified
<1>9. Carried'
  <2>1. pass'.failed = 0 /\ Acting => \A e \in Planned \ pass.plan : e.name \notin present'
    BY <1>1, <1>2, <1>3, <1>7 DEF Carried
  <2> QED BY <1>1, <1>2, <1>6, <1>8, <2>1 DEF Carried, Acting
<1> QED BY <1>4, <1>5, <1>9 DEF DirInv

LEMMA DirRests ==
  ASSUME DirInv, UNCHANGED dirVars
  PROVE  DirInv'
<1>1. UNCHANGED <<stamp, present, used, atOpen, pass>>
  BY DEF dirVars
<1>2. Planned' = Planned
  BY <1>1 DEF Planned
<1>3. \A n : RemovalJustified(n)' = RemovalJustified(n)
  BY <1>1 DEF RemovalJustified
<1>4. DirTypes' /\ Listed'
  BY <1>1 DEF DirInv, DirTypes, Listed, EntryOf
<1>5. Carried'
  BY <1>1, <1>2, <1>3 DEF DirInv, Carried, Acting
<1> QED BY <1>4, <1>5 DEF DirInv

LEMMA DirStepKeeps ==
  ASSUME DirInv, [Next]_vars
  PROVE  DirInv'
<1>1. CASE Hooks \/ UNCHANGED vars
  BY <1>1, DirRests DEF Hooks, vars
<1>2. CASE Cleanup
  <2>1. DirStep
    BY <1>2 DEF Cleanup
  <2>2. ASSUME NEW end, OpenDir(end) PROVE DirInv'
    BY <2>2, OpenDirKeeps
  <2>3. ASSUME NEW end, ReadFails(end) PROVE DirInv'
    BY <2>3, ReadFailsKeeps
  <2>4. ASSUME NEW end, CloseDir(end) PROVE DirInv'
    BY <2>4, CloseDirKeeps
  <2>5. ASSUME NEW e \in pass.plan, NEW end, RemoveEntry(e, end) PROVE DirInv'
    BY <2>5, RemoveEntryKeeps
  <2> QED BY <2>1, <2>2, <2>3, <2>4, <2>5, ReadNamesKeeps, ReadEndKeeps, ReportKeeps,
             OthersKeeps DEF DirStep
<1> QED BY <1>1, <1>2 DEF Next

LEMMA DirAlways == Spec => []DirInv
<1>1. DirInv /\ [Next]_vars => DirInv'
  BY DirStepKeeps
<1> QED BY DirStarts, <1>1, PTL DEF Spec

-----------------------------------------------------------------------------
(* A listing that is acted on holds the uploads that were there throughout,
   each with its own time, whatever groups its attributes have and wherever
   the server cuts the listing; one that was cut short deletes nothing
   (dir_ops.cpp, DirOps::ListDir and DirOps::Cleanup).                     *)
THEOREM ListingIsTrue == Spec => []ListingTrue
<1>1. DirInv => ListingTrue
  <2> SUFFICES ASSUME DirInv, pass.stage = "remove" PROVE ListingTrue
    BY DEF ListingTrue
  <2>1. DirTypes /\ Listed /\ Acting
    BY DEF DirInv, Carried, Acting
  <2>2. /\ pass.truncated \/ pass.done
        /\ pass.plan \subseteq Planned
        /\ pass.removed + pass.failed + Cardinality(pass.plan) <= Cardinality(Planned)
    BY <2>1 DEF DirInv, Carried
  <2>3. \A e \in pass.entries : e.name \in Uploads \cap used /\ e.mtime = stamp[e.name]
    BY <2>1, ListedIs DEF EntryOf, DirTypes
  <2>4. ASSUME pass.truncated
        PROVE  pass.plan = {} /\ pass.removed + pass.failed = 0
    <3>1. Planned = {} /\ pass.plan = {}
      BY <2>1, <2>2, <2>4, PlannedIs
    <3>2. Cardinality(Planned) = 0 /\ Cardinality(pass.plan) = 0
      BY <3>1, FS_EmptySet
    <3>3. pass.removed \in Nat /\ pass.failed \in Nat
      BY <2>1 DEF DirTypes, Passes
    <3> QED BY <2>2, <3>1, <3>2, <3>3
  <2>5. ASSUME ~pass.truncated, NEW n \in atOpen \cap present \cap Uploads
        PROVE  n \in {e.name : e \in pass.entries}
    <3>1. n \in pass.sent \cap Uploads
      BY <2>1, <2>2, <2>5 DEF Listed
    <3>2. EntryOf(n) \in pass.entries /\ EntryOf(n).name = n
      BY <2>1, <2>5, <3>1 DEF Listed, EntryOf
    <3> QED BY <3>2
  <2> QED BY <2>3, <2>4, <2>5 DEF ListingTrue
<1> QED BY DirAlways, <1>1, PTL

(* The report of a pass without a failure means that the policy holds of what
   it found, however the removals and the work of others interleaved
   (retention.cpp, PlanRetention; dir_ops.cpp, DirOps::Cleanup).           *)
THEOREM PolicyIsApplied == Spec => []PolicyApplied
<1>1. DirInv => PolicyApplied
  <2> DEFINE left == {n \in atOpen \cap present \cap Uploads : stamp[n] # NoTime}
             kept == Timed(pass.entries) \ Planned
  <2> SUFFICES ASSUME DirInv, pass.stage = "ended", ~pass.err, ~pass.truncated,
                      pass.failed = 0
               PROVE  /\ pass.policy.keep > 0 => Cardinality(left) <= pass.policy.keep
                      /\ pass.policy.age > 0 =>
                           \A n \in left : pass.now <= stamp[n] + pass.policy.age
    BY DEF PolicyApplied
  <2>1. DirTypes /\ Listed /\ Acting
    BY DEF DirInv, Acting
  <2>2. pass.done /\ \A e \in Planned : e.name \notin present
    BY <2>1 DEF DirInv, Carried
  <2>3. /\ pass.entries \in SUBSET Entries /\ IsFiniteSet(pass.entries)
        /\ pass.policy \in Policies /\ pass.now \in Times
    BY <2>1, ListedIs DEF DirTypes, Passes
  <2>4. /\ pass.policy.keep > 0 => Cardinality(kept) <= pass.policy.keep
        /\ pass.policy.age > 0 => \A e \in kept : pass.now <= e.mtime + pass.policy.age
    <3>1. Planned = PlanRetention(pass.entries, FALSE, pass.now, pass.policy)
      BY <2>1 DEF Planned, DirTypes, Passes
    <3>2. Obeyed(Timed(pass.entries) \ Planned, pass.now, pass.policy)
      BY <2>3, <3>1, PlanIs
    <3> QED BY <3>2 DEF Obeyed
  <2>5. ASSUME NEW n \in left
        PROVE  EntryOf(n) \in kept /\ EntryOf(n).name = n /\ EntryOf(n).mtime = stamp[n]
    <3>1. EntryOf(n).name = n /\ EntryOf(n).mtime = stamp[n]
      BY DEF EntryOf
    <3>2. EntryOf(n) \in pass.entries
      BY <2>1, <2>2 DEF Listed
    <3>3. EntryOf(n) \notin Planned
      BY <2>2, <3>1
    <3> QED BY <3>1, <3>2, <3>3 DEF Timed
  <2> DEFINE f == [n \in left |-> EntryOf(n)]
  <2>6. f \in Injection(left, kept)
    <3>1. f \in [left -> kept] /\ \A m, n \in left : f[m] = f[n] => m = n
      <4> HIDE DEF left, kept
      <4> QED BY <2>5
    <3> HIDE DEF f, left, kept
    <3> QED BY <3>1 DEF Injection, IsInjective
  <2>7. IsFiniteSet(kept)
    BY <2>3, FS_Subset DEF Timed
  <2>8. Cardinality(left) <= Cardinality(kept) /\ Cardinality(kept) \in Nat
        /\ Cardinality(left) \in Nat
    <3> HIDE DEF f, left, kept
    <3> QED BY <2>6, <2>7, FS_Injection, FS_CardinalityType
  <2>9. pass.policy.keep \in Nat
    BY <2>3, RetentionAssumption
  <2>10. pass.policy.keep > 0 => Cardinality(left) <= pass.policy.keep
    <3> HIDE DEF left, kept
    <3> QED BY <2>4, <2>8, <2>9
  <2>11. pass.policy.age > 0 => \A n \in left : pass.now <= stamp[n] + pass.policy.age
    <3> HIDE DEF left, kept
    <3> QED BY <2>4, <2>5
  <2> QED BY <2>10, <2>11
<1> QED BY DirAlways, <1>1, PTL

(* A step of the pass deletes uploads it has a reason to delete, and no other
   file, also when the directory changed since the plan was made
   (dir_ops.cpp, DirOps::Cleanup).                                         *)
THEOREM DeletionsHaveAReason == Spec => RemovalsJustified
<1>1. DirInv /\ [Next]_vars =>
        [pass' # pass => \A n \in present \ present' : RemovalJustified(n)]_<<present, pass>>
  <2> SUFFICES ASSUME DirInv, [Next]_vars, pass' # pass, NEW n \in present \ present'
               PROVE  RemovalJustified(n)
    OBVIOUS
  <2>1. Cleanup
    BY DEF Next, Hooks, vars, dirVars
  <2>2. PICK e \in pass.plan, end \in Ends({}) : RemoveEntry(e, end)
    BY <2>1 DEF Cleanup, DirStep, OpenDir, ReadNames, ReadEnd, ReadFails, CloseDir, Report, Others
  <2>3. n = e.name /\ pass.stage = "remove"
    BY <2>2 DEF RemoveEntry
  <2> QED BY <2>3 DEF DirInv, Carried, Acting
<1> QED BY DirAlways, <1>1, PTL DEF Spec, RemovalsJustified

(* The stream is up or not and in step or not, the faults are counted and
   bounded.                                                                *)
WireTypes == up \in BOOLEAN /\ inStep \in BOOLEAN /\ faults \in 0 .. MaxFaults

LEMMA ExchangeKeeps ==
  ASSUME WireTypes, NEW more, NEW end \in Ends(more), Exchange(end)
  PROVE  WireTypes'
<1>1. faults \in Nat /\ MaxFaults \in Nat /\ (up /\ inStep /\ end # Done => faults < MaxFaults)
  BY SftpClientAssumption DEF WireTypes, Ends
<1>2. /\ up' = (up /\ end.reply # "none") /\ inStep' = (inStep /\ end.reply # "unreadable")
      /\ faults' = faults + (IF up /\ inStep /\ end # Done THEN 1 ELSE 0)
  BY DEF Exchange
<1>3. up' \in BOOLEAN /\ inStep' \in BOOLEAN
  BY <1>2
<1>4. faults' \in 0 .. MaxFaults
  BY <1>1, <1>2 DEF WireTypes
<1> QED BY <1>3, <1>4 DEF WireTypes

LEMMA WireKeeps ==
  ASSUME WireTypes, [Next]_vars
  PROVE  WireTypes'
<1>1. ASSUME UNCHANGED <<up, inStep, faults>> PROVE WireTypes'
  BY <1>1 DEF WireTypes
<1>2. CASE Hooks
  <2>1. HookStep
    BY <1>2 DEF Hooks
  <2>2. ASSUME NEW end \in Ends({}), WriteOpen(end) \/ WriteClose(end)
        PROVE  WireTypes'
    <3>1. Exchange(end)
      BY <2>2 DEF WriteOpen, WriteClose
    <3> QED BY <3>1, ExchangeKeeps
  <2>3. ASSUME NEW end \in Ends({Hollow}), WriteChunk(end) PROVE WireTypes'
    <3>1. Exchange(end)
      BY <2>3 DEF WriteChunk
    <3> QED BY <3>1, ExchangeKeeps
  <2>4. ASSUME Crash \/ Reconnect PROVE WireTypes'
    BY <2>4 DEF Crash, Reconnect, Connect, WireTypes
  <2>5. ASSUME NEW kind, Begin(kind) PROVE UNCHANGED <<up, inStep, faults>>
    BY <2>5 DEF Begin
  <2>6. ASSUME Edit PROVE UNCHANGED <<up, inStep, faults>>
    BY <2>6 DEF Edit
  <2>7. ASSUME NEW end \in Ends({Starved}), ReadBackup(end) \/ ReadOriginal(end) \/ Verify(end)
        PROVE  WireTypes'
    <3>1. Exchange(end)
      BY <2>7 DEF ReadBackup, ReadOriginal, Verify
    <3> QED BY <3>1, ExchangeKeeps
  <2> QED BY <1>1, <2>1, <2>2, <2>3, <2>4, <2>5, <2>6, <2>7 DEF HookStep
<1>3. CASE Cleanup
  <2>1. DirStep
    BY <1>3 DEF Cleanup
  <2>2. ASSUME NEW end \in Ends({}),
               OpenDir(end) \/ ReadFails(end) \/ CloseDir(end)
                 \/ \E e \in pass.plan : RemoveEntry(e, end)
        PROVE  WireTypes'
    <3>1. Exchange(end)
      BY <2>2 DEF OpenDir, ReadFails, CloseDir, RemoveEntry
    <3> QED BY <3>1, ExchangeKeeps
  <2>3. ASSUME ReadNames \/ ReadEnd PROVE WireTypes'
    <3>1. Done \in Ends({}) /\ Exchange(Done)
      BY <2>3 DEF ReadNames, ReadEnd
    <3> QED BY <3>1, ExchangeKeeps
  <2>4. ASSUME Report \/ Others PROVE UNCHANGED <<up, inStep, faults>>
    BY <2>4 DEF Report, Others
  <2> QED BY <1>1, <2>1, <2>2, <2>3, <2>4 DEF DirStep
<1>4. CASE UNCHANGED vars
  BY <1>1, <1>4 DEF vars, wireVars
<1> QED BY <1>2, <1>3, <1>4 DEF Next

(* The two users of the client stay within their types and bounds: a listing
   within its limit, a plan from the listing and no entry counted twice, a
   write within the text it writes and never more backups than operations. *)
THEOREM RemoteTypes == Spec => []TypeOK
<1>1. WireTypes /\ [Next]_vars => WireTypes'
  BY WireKeeps
<1>2. Init => WireTypes
  BY SftpClientAssumption DEF Init, WireInit, WireTypes
<1>3. HookInv => HookTypeOK
  <2> SUFFICES ASSUME HookInv PROVE HookTypeOK
    OBVIOUS
  <2>1. /\ op.kind \in {"none", "install", "remove", "restore"} /\ op.pos \in Nat
        /\ op.cause \in {"error", "writeFailed"} /\ op.whole \in BOOLEAN
    BY DEF HookInv, FileTypes, OpTypes, Kinds
  <2>6. op.whole \/ authored = <<>>
    BY DEF HookInv, Found
  <2>2. op.keep => op.orig # <<>>
    BY DEF HookInv, Found
  <2>3. Len(Payload) \in Nat /\ Len(backups) \in Nat
    BY DEF HookInv, FileTypes, Payload, Files
  <2>4. /\ op.stage = "idle" <=> op.kind = "none"
        /\ op.stage \in {"backup", "verifyBackup", "rollback", "verifyRollback"} => op.keep
        /\ op.stage \in Writing => op.pos <= Len(Payload) + 1
        /\ op.pos > 0 => op.stage \in Writing
    BY DEF HookInv, Progress, Preserving, Reverting
  <2>5. Len(backups) <= ops
    BY <2>3 DEF HookInv, BackupsCounted, FileTypes
  <2> HIDE DEF Payload
  <2> QED BY <2>1, <2>2, <2>3, <2>4, <2>5, <2>6 DEF HookTypeOK
<1>4. DirInv => DirTypeOK
  <2> SUFFICES ASSUME DirInv PROVE DirTypeOK
    OBVIOUS
  <2>1. DirTypes /\ Listed
    BY DEF DirInv
  <2>2. /\ pass.entries \in SUBSET Entries /\ IsFiniteSet(pass.entries)
        /\ Cardinality(pass.entries) \in Nat
    BY <2>1, ListedIs
  <2>3. Planned \subseteq pass.entries /\ Cardinality(Planned) \in Nat
    BY <2>1, PlannedIs
  <2>4. Cardinality(Planned) <= Cardinality(pass.entries)
    BY <2>2, <2>3, FS_Subset
  <2>5. pass.plan \subseteq pass.entries
    BY <2>1, <2>3 DEF DirInv, Carried, Acting, Listed, DirTypes, Passes
  <2>6. pass.stage = "remove" =>
          pass.removed + pass.failed + Cardinality(pass.plan) <= Cardinality(pass.entries)
    <3> SUFFICES ASSUME pass.stage = "remove"
                 PROVE  pass.removed + pass.failed + Cardinality(pass.plan)
                          <= Cardinality(pass.entries)
      OBVIOUS
    <3>1. pass.removed + pass.failed + Cardinality(pass.plan) <= Cardinality(Planned)
      BY DEF DirInv, Carried, Acting
    <3>2. pass.removed \in Nat /\ pass.failed \in Nat /\ Cardinality(pass.plan) \in Nat
      BY <2>1, <2>2, <2>5, FS_Subset, FS_CardinalityType DEF DirTypes, Passes
    <3> QED BY <2>2, <2>3, <2>4, <3>1, <3>2
  <2> QED BY <2>1, <2>2, <2>5, <2>6 DEF DirTypeOK, DirTypes, Listed
<1> QED BY HookAlways, DirAlways, <1>1, <1>2, <1>3, <1>4, PTL DEF Spec, TypeOK, WireTypes
=============================================================================
