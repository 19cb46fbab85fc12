------------------------- MODULE QueueAndRouter_proofs -------------------------
(***************************************************************************)
(* The two services that any caller of a process may call at any time: the *)
(* event queue and the eval router.                                        *)
(*                                                                         *)
(* The queue.  Its history holds the newest messages, and each message     *)
(* reaches the handlers that were due, for any number of threads, handlers *)
(* that publish or raise, and history limit.  The argument goes over the   *)
(* stacks of nested publish() calls: a message is in one call at most, and *)
(* only the innermost call of a thread can still be untrimmed.             *)
(*                                                                         *)
(* The router.  Decisions follow the grades because the profiles'          *)
(* qualities are, at any time, what the grades say; and the cheapest of    *)
(* the models that meet a policy is not dominated, because a model that    *)
(* dominates it would meet the policy too.                                 *)
(***************************************************************************)
EXTENDS EventQueue, EvalRouter, FiniteSetTheorems, SequenceTheorems,
        WellFoundedInduction, TLAPS

----------
(* The event queue *)

Types ==
  /\ subscribers \in [Topics \cup {"*"} -> Seq(Handlers)]
  /\ history \in Seq(Message)
  /\ sent \in 0..MaxMessages
  /\ calls \in [Publishers -> Seq(Call)]
  /\ heard \in [Messages -> Seq(Handlers)]
  /\ due \in [Messages -> Seq(Handlers)]

\* The calls are of messages that were sent, each of one.
OneCallEach(c, s) ==
  /\ \A t \in Publishers : \A i \in 1..Len(c[t]) : c[t][i].msg.id <= s
  /\ \A t, u \in Publishers : \A i \in 1..Len(c[t]) : \A j \in 1..Len(c[u]) :
       c[t][i].msg.id = c[u][j].msg.id => t = u /\ i = j

\* Only an innermost call is yet to notify anybody, and it has notified nobody.
OnlyInnermost(c, h, d) ==
  \A t \in Publishers : \A i \in 1..Len(c[t]) :
    c[t][i].phase # "notify" =>
      /\ i = Len(c[t]) /\ c[t][i].todo = <<>>
      /\ h[c[t][i].msg.id] = <<>> /\ d[c[t][i].msg.id] = <<>>

\* DeliveredOnce, and nobody has heard what was not sent.
Delivered(c, s, h, d) ==
  \A m \in Messages :
    /\ m > s => h[m] = <<>> /\ d[m] = <<>>
    /\ \A t \in Publishers : \A i \in 1..Len(c[t]) :
         c[t][i].msg.id = m => h[m] \o c[t][i].todo = d[m]
    /\ (\A t \in Publishers : \A i \in 1..Len(c[t]) : c[t][i].msg.id # m) => h[m] = d[m]

StacksOK(c, s, h, d) ==
  OneCallEach(c, s) /\ OnlyInnermost(c, h, d) /\ Delivered(c, s, h, d)

StacksInv == Types /\ StacksOK(calls, sent, heard, due) /\ HistoryIsTheNewest

----------
LEMMA PrefixFacts ==
  ASSUME NEW S, NEW s \in Seq(S), NEW k \in Nat, \A i \in 1..k : s[i] \in S
  PROVE  /\ SubSeq(s, 1, k) \in Seq(S) /\ Len(SubSeq(s, 1, k)) = k
         /\ \A i \in 1..k : SubSeq(s, 1, k)[i] = s[i]
OBVIOUS

LEMMA FrontFacts ==
  ASSUME NEW S, NEW s \in Seq(S), s # <<>>
  PROVE  /\ Len(s) \in Nat \ {0} /\ Last(s) \in S /\ Last(s) = s[Len(s)]
         /\ Front(s) \in Seq(S) /\ Len(Front(s)) = Len(s) - 1
         /\ \A i \in 1..(Len(s) - 1) : Front(s)[i] = s[i]
<1>1. Len(s) \in Nat \ {0} /\ Len(s) - 1 \in Nat
  <2>1. Len(s) # 0
    BY EmptySeq
  <2> QED BY <2>1
<1>2. \A i \in 1..Len(s) : s[i] \in S
  BY ElementOfSeq
<1>3. \A i \in 1..(Len(s) - 1) : s[i] \in S
  BY <1>1, <1>2
<1>4. Last(s) \in S /\ Last(s) = s[Len(s)]
  BY <1>1, <1>2 DEF Last
<1> QED BY <1>1, <1>3, <1>4, PrefixFacts DEF Front

LEMMA ReplaceFacts ==
  ASSUME NEW S, NEW s \in Seq(S), s # <<>>, NEW x \in S
  PROVE  /\ Append(Front(s), x) \in Seq(S) /\ Len(Append(Front(s), x)) = Len(s)
         /\ Append(Front(s), x)[Len(s)] = x
         /\ \A i \in 1..(Len(s) - 1) : Append(Front(s), x)[i] = s[i]
<1>1. /\ Front(s) \in Seq(S) /\ Len(Front(s)) = Len(s) - 1
      /\ \A i \in 1..(Len(s) - 1) : Front(s)[i] = s[i]
      /\ Len(s) \in Nat \ {0}
  BY FrontFacts
<1> QED BY <1>1

LEMMA CallFacts ==
  ASSUME NEW c \in [Publishers -> Seq(Call)], NEW t \in Publishers, NEW i \in 1..Len(c[t])
  PROVE  /\ c[t][i] \in Call /\ c[t][i].msg \in Message
         /\ c[t][i].msg.id \in Messages /\ c[t][i].todo \in Seq(Handlers)
<1>1. c[t] \in Seq(Call)
  OBVIOUS
<1>2. c[t][i] \in Call
  BY <1>1, ElementOfSeq
<1> QED BY <1>2 DEF Call, Message

\* The innermost call of a thread goes on with the same message.
LEMMA GoOnKeeps ==
  ASSUME NEW c \in [Publishers -> Seq(Call)], NEW s \in Nat,
         NEW h \in [Messages -> Seq(Handlers)], NEW d \in [Messages -> Seq(Handlers)],
         NEW t \in Publishers, c[t] # <<>>, NEW new \in Call,
         new.msg = Last(c[t]).msg, StacksOK(c, s, h, d),
         NEW x \in Seq(Handlers), NEW y \in Seq(Handlers), x \o new.todo = y,
         new.phase # "notify" => new.todo = <<>> /\ x = <<>> /\ y = <<>>
  PROVE  StacksOK([c EXCEPT ![t] = Append(Front(c[t]), new)], s,
                  [h EXCEPT ![new.msg.id] = x], [d EXCEPT ![new.msg.id] = y])
<1> DEFINE n == Len(c[t])
           id == new.msg.id
           c2 == [c EXCEPT ![t] = Append(Front(c[t]), new)]
           h2 == [h EXCEPT ![id] = x]
           d2 == [d EXCEPT ![id] = y]
<1>1. /\ n \in Nat \ {0} /\ c[t][n].msg = new.msg /\ id \in Messages
      /\ \A u \in Publishers : Len(c[u]) \in Nat /\ Len(c2[u]) = Len(c[u])
      /\ c2[t][n] = new
      /\ \A u \in Publishers : \A i \in 1..Len(c[u]) :
           ~(u = t /\ i = n) => c2[u][i] = c[u][i]
  <2>1. n \in Nat \ {0} /\ Last(c[t]) = c[t][n]
    BY FrontFacts
  <2>2. /\ Len(Append(Front(c[t]), new)) = n /\ Append(Front(c[t]), new)[n] = new
        /\ \A i \in 1..(n - 1) : Append(Front(c[t]), new)[i] = c[t][i]
    BY ReplaceFacts
  <2>3. id \in Messages
    BY DEF Call, Message
  <2>4. c2[t] = Append(Front(c[t]), new) /\ \A u \in Publishers : u # t => c2[u] = c[u]
    OBVIOUS
  <2>5. \A u \in Publishers : Len(c[u]) \in Nat
    OBVIOUS
  <2>6. \A u \in Publishers : Len(c2[u]) = Len(c[u])
    BY <2>2, <2>4
  <2>7. ASSUME NEW u \in Publishers, NEW i \in 1..Len(c[u]), ~(u = t /\ i = n)
        PROVE  c2[u][i] = c[u][i]
    <3>1. CASE u # t
      BY <3>1, <2>4
    <3>2. CASE u = t
      <4>1. i \in 1..(n - 1)
        BY <3>2, <2>7, <2>1
      <4> QED BY <4>1, <3>2, <2>2, <2>4
    <3> QED BY <3>1, <3>2
  <2>8. n \in Nat \ {0} /\ c[t][n].msg = new.msg /\ id \in Messages /\ c2[t][n] = new
    BY <2>1, <2>2, <2>3, <2>4
  <2> QED BY <2>5, <2>6, <2>7, <2>8
<1>2. ASSUME NEW u \in Publishers, NEW i \in 1..Len(c[u])
      PROVE  c2[u][i].msg.id = c[u][i].msg.id /\ c[u][i].msg.id \in Messages
  <2>1. c[u][i] \in Call
    BY CallFacts
  <2>2. c2[u][i].msg = c[u][i].msg
    <3>1. CASE u = t /\ i = n
      BY <3>1, <1>1
    <3>2. CASE ~(u = t /\ i = n)
      BY <3>2, <1>1
    <3> QED BY <3>1, <3>2
  <2> QED BY <2>1, <2>2 DEF Call, Message
<1>3. OneCallEach(c2, s)
  <2>1. OneCallEach(c, s)
    BY DEF StacksOK
  <2>2. \A u \in Publishers : 1..Len(c2[u]) = 1..Len(c[u])
    BY <1>1
  <2>3. \A u \in Publishers : \A i \in 1..Len(c2[u]) : c2[u][i].msg.id <= s
    BY <1>2, <2>1, <2>2 DEF OneCallEach
  <2>4. ASSUME NEW u \in Publishers, NEW v \in Publishers,
               NEW i \in 1..Len(c2[u]), NEW j \in 1..Len(c2[v]),
               c2[u][i].msg.id = c2[v][j].msg.id
        PROVE  u = v /\ i = j
    <3>1. i \in 1..Len(c[u]) /\ j \in 1..Len(c[v])
      BY <2>2
    <3>2. c[u][i].msg.id = c[v][j].msg.id
      BY <1>2, <2>4, <3>1
    <3> QED BY <2>1, <3>1, <3>2 DEF OneCallEach
  <2> QED BY <2>3, <2>4 DEF OneCallEach
<1>4. \A u \in Publishers : \A i \in 1..Len(c[u]) :
        ~(u = t /\ i = n) => c[u][i].msg.id # id
  <2>1. OneCallEach(c, s)
    BY DEF StacksOK
  <2>2. n \in 1..Len(c[t]) /\ c[t][n].msg.id = id
    <3> HIDE DEF c2, h2, d2
    <3> QED BY <1>1
  <2> HIDE DEF n, id, c2, h2, d2
  <2>3. ASSUME NEW u \in Publishers, NEW i \in 1..Len(c[u]), c[u][i].msg.id = id
        PROVE  u = t /\ i = n
    BY <2>1, <2>2, <2>3 DEF OneCallEach
  <2> QED BY <2>3
<1>5. /\ h2[id] = x /\ d2[id] = y
      /\ \A m \in Messages : m # id => h2[m] = h[m] /\ d2[m] = d[m]
  BY <1>1
<1>6. OnlyInnermost(c2, h2, d2)
  <2> SUFFICES ASSUME NEW u \in Publishers, NEW i \in 1..Len(c[u]), c2[u][i].phase # "notify"
               PROVE  /\ i = Len(c[u]) /\ c2[u][i].todo = <<>>
                      /\ h2[c2[u][i].msg.id] = <<>> /\ d2[c2[u][i].msg.id] = <<>>
    BY <1>1 DEF OnlyInnermost
  <2>1. CASE u = t /\ i = n
    <3>1. c2[u][i] = new
      BY <2>1, <1>1
    <3>2. i = Len(c[u]) /\ new.todo = <<>> /\ x = <<>> /\ y = <<>>
      BY <2>1, <3>1
    <3> HIDE DEF c2, h2, d2
    <3> QED BY <3>1, <3>2, <1>5
  <2>2. CASE ~(u = t /\ i = n)
    <3>1. c2[u][i] = c[u][i]
      BY <2>2, <1>1
    <3> HIDE DEF n, id, c2, h2, d2
    <3>2. /\ i = Len(c[u]) /\ c[u][i].todo = <<>>
          /\ h[c[u][i].msg.id] = <<>> /\ d[c[u][i].msg.id] = <<>>
      BY <3>1 DEF StacksOK, OnlyInnermost
    <3>3. c[u][i].msg.id \in Messages /\ c[u][i].msg.id # id
      BY <2>2, <1>2, <1>4
    <3> QED BY <3>1, <3>2, <3>3, <1>5
  <2> QED BY <2>1, <2>2
<1>7. Delivered(c2, s, h2, d2)
  <2> SUFFICES ASSUME NEW m \in Messages
               PROVE  /\ m > s => h2[m] = <<>> /\ d2[m] = <<>>
                      /\ \A u \in Publishers : \A i \in 1..Len(c2[u]) :
                           c2[u][i].msg.id = m => h2[m] \o c2[u][i].todo = d2[m]
                      /\ (\A u \in Publishers : \A i \in 1..Len(c2[u]) :
                            c2[u][i].msg.id # m) => h2[m] = d2[m]
    BY DEF Delivered
  <2>1. CASE m = id
    <3>1. m <= s
      BY <2>1, <1>1 DEF StacksOK, OneCallEach
    <3>2. \A u \in Publishers : \A i \in 1..Len(c2[u]) :
            c2[u][i].msg.id = m => h2[m] \o c2[u][i].todo = d2[m]
      <4> SUFFICES ASSUME NEW u \in Publishers, NEW i \in 1..Len(c[u]), c2[u][i].msg.id = id
                   PROVE  x \o c2[u][i].todo = y
        BY <2>1, <1>1, <1>5
      <4>1. u = t /\ i = n
        <5> HIDE DEF n, id, c2, h2, d2
        <5>1. c[u][i].msg.id = id
          BY <1>2
        <5> QED BY <5>1, <1>4
      <4> QED BY <4>1, <1>1
    <3>3. n \in 1..Len(c2[t]) /\ c2[t][n].msg.id = m
      BY <2>1, <1>1
    <3>4. ~(m > s)
      BY <3>1 DEF Messages
    <3>5. ~\A u \in Publishers : \A i \in 1..Len(c2[u]) : c2[u][i].msg.id # m
      BY <3>3
    <3> QED BY <3>2, <3>4, <3>5
  <2>2. CASE m # id
    <3>1. h2[m] = h[m] /\ d2[m] = d[m]
      BY <2>2, <1>5
    <3>2. \A u \in Publishers : \A i \in 1..Len(c2[u]) :
            c2[u][i].msg.id = m => c2[u][i] = c[u][i]
      BY <2>2, <1>1
    <3>3. Delivered(c, s, h, d)
      BY DEF StacksOK
    <3>4. \A u \in Publishers : 1..Len(c2[u]) = 1..Len(c[u])
      BY <1>1
    <3>5. (\A u \in Publishers : \A i \in 1..Len(c2[u]) : c2[u][i].msg.id # m)
            => h2[m] = d2[m]
      <4> SUFFICES ASSUME \A u \in Publishers : \A i \in 1..Len(c2[u]) : c2[u][i].msg.id # m
                   PROVE  h[m] = d[m]
        BY <3>1
      <4>1. ASSUME NEW u \in Publishers, NEW i \in 1..Len(c[u])
            PROVE  c[u][i].msg.id # m
        <5>1. i \in 1..Len(c2[u]) /\ c2[u][i].msg.id = c[u][i].msg.id
          BY <1>2, <3>4
        <5> HIDE DEF c2
        <5> QED BY <5>1
      <4> QED BY <3>3, <4>1 DEF Delivered
    <3>6. \A u \in Publishers : \A i \in 1..Len(c2[u]) :
            c2[u][i].msg.id = m => h2[m] \o c2[u][i].todo = d2[m]
      <4> SUFFICES ASSUME NEW u \in Publishers, NEW i \in 1..Len(c2[u]), c2[u][i].msg.id = m
                   PROVE  h2[m] \o c2[u][i].todo = d2[m]
        OBVIOUS
      <4>1. i \in 1..Len(c[u]) /\ c2[u][i] = c[u][i]
        BY <3>2, <3>4
      <4>2. c[u][i].msg.id = m
        BY <4>1
      <4>3. h[m] \o c[u][i].todo = d[m]
        BY <3>3, <4>1, <4>2 DEF Delivered
      <4> QED BY <3>1, <4>1, <4>3
    <3> QED BY <3>1, <3>3, <3>5, <3>6 DEF Delivered
  <2> QED BY <2>1, <2>2
<1> QED BY <1>3, <1>6, <1>7 DEF StacksOK

\* A message that is new to everybody is published on top of calls that notify.
LEMMA PushKeeps ==
  ASSUME NEW c \in [Publishers -> Seq(Call)], NEW s \in Nat,
         NEW h \in [Messages -> Seq(Handlers)], NEW d \in [Messages -> Seq(Handlers)],
         NEW t \in Publishers, NEW new \in Call, new.msg.id = s + 1, new.todo = <<>>,
         \A i \in 1..Len(c[t]) : c[t][i].phase = "notify", StacksOK(c, s, h, d)
  PROVE  StacksOK([c EXCEPT ![t] = Append(c[t], new)], s + 1, h, d)
<1> DEFINE n == Len(c[t]) + 1
           c2 == [c EXCEPT ![t] = Append(c[t], new)]
<1>1. OneCallEach(c, s) /\ OnlyInnermost(c, h, d) /\ Delivered(c, s, h, d)
  BY DEF StacksOK
<1>2. \A u \in Publishers : Len(c[u]) \in Nat
  OBVIOUS
<1>3. /\ n \in Nat \ {0} /\ Len(c2[t]) = n /\ c2[t][n] = new
      /\ \A u \in Publishers : u # t => c2[u] = c[u]
      /\ \A i \in 1..Len(c[t]) : c2[t][i] = c[t][i]
  BY <1>2
<1>4. ASSUME NEW u \in Publishers, NEW i \in 1..Len(c2[u])
      PROVE  \/ u = t /\ i = n /\ c2[u][i] = new
             \/ ~(u = t /\ i = n) /\ i \in 1..Len(c[u]) /\ c2[u][i] = c[u][i]
  <2>1. CASE u = t
    BY <2>1, <1>2, <1>3
  <2>2. CASE u # t
    BY <2>2, <1>3
  <2> QED BY <2>1, <2>2
<1>5. \A u \in Publishers : \A i \in 1..Len(c[u]) :
        c[u][i].msg.id \in Int /\ c[u][i].msg.id <= s
  BY <1>1, CallFacts DEF OneCallEach, Messages
<1>6. s + 1 \in Messages
  BY DEF Call, Message
<1>7. h[s + 1] = <<>> /\ d[s + 1] = <<>>
  BY <1>1, <1>6 DEF Delivered
<1>8. OneCallEach(c2, s + 1)
  <2>1. ASSUME NEW u \in Publishers, NEW i \in 1..Len(c2[u])
        PROVE  c2[u][i].msg.id <= s + 1
    BY <1>4, <1>5
  <2>2. ASSUME NEW u \in Publishers, NEW v \in Publishers,
               NEW i \in 1..Len(c2[u]), NEW j \in 1..Len(c2[v]),
               c2[u][i].msg.id = c2[v][j].msg.id
        PROVE  u = v /\ i = j
    <3>1. CASE u = t /\ i = n
      <4>1. c2[v][j].msg.id = s + 1
        BY <2>2, <3>1, <1>3
      <4>2. v = t /\ j = n
        BY <4>1, <1>4, <1>5
      <4> QED BY <3>1, <4>2
    <3>2. CASE v = t /\ j = n
      <4>1. c2[u][i].msg.id = s + 1
        BY <2>2, <3>2, <1>3
      <4>2. u = t /\ i = n
        BY <4>1, <1>4, <1>5
      <4> QED BY <3>2, <4>2
    <3>3. CASE ~(u = t /\ i = n) /\ ~(v = t /\ j = n)
      <4>1. /\ i \in 1..Len(c[u]) /\ c2[u][i] = c[u][i]
            /\ j \in 1..Len(c[v]) /\ c2[v][j] = c[v][j]
        BY <3>3, <1>4
      <4>2. c[u][i].msg.id = c[v][j].msg.id
        BY <2>2, <4>1
      <4> QED BY <4>1, <4>2, <1>1 DEF OneCallEach
    <3> QED BY <3>1, <3>2, <3>3
  <2> QED BY <2>1, <2>2 DEF OneCallEach
<1>9. OnlyInnermost(c2, h, d)
  <2> SUFFICES ASSUME NEW u \in Publishers, NEW i \in 1..Len(c2[u]), c2[u][i].phase # "notify"
               PROVE  /\ i = Len(c2[u]) /\ c2[u][i].todo = <<>>
                      /\ h[c2[u][i].msg.id] = <<>> /\ d[c2[u][i].msg.id] = <<>>
    BY DEF OnlyInnermost
  <2>1. CASE u = t /\ i = n
    BY <2>1, <1>3, <1>7
  <2>2. CASE ~(u = t /\ i = n)
    <3>1. i \in 1..Len(c[u]) /\ c2[u][i] = c[u][i]
      BY <2>2, <1>4
    <3>2. u # t /\ c2[u] = c[u]
      BY <3>1, <1>3
    <3> QED BY <3>1, <3>2, <1>1 DEF OnlyInnermost
  <2> QED BY <2>1, <2>2
<1>10. Delivered(c2, s + 1, h, d)
  <2> SUFFICES ASSUME NEW m \in Messages
               PROVE  /\ m > s + 1 => h[m] = <<>> /\ d[m] = <<>>
                      /\ \A u \in Publishers : \A i \in 1..Len(c2[u]) :
                           c2[u][i].msg.id = m => h[m] \o c2[u][i].todo = d[m]
                      /\ (\A u \in Publishers : \A i \in 1..Len(c2[u]) :
                            c2[u][i].msg.id # m) => h[m] = d[m]
    BY DEF Delivered
  <2>1. m > s + 1 => h[m] = <<>> /\ d[m] = <<>>
    BY <1>1 DEF Delivered, Messages
  <2>2. ASSUME NEW u \in Publishers, NEW i \in 1..Len(c2[u]), c2[u][i].msg.id = m
        PROVE  h[m] \o c2[u][i].todo = d[m]
    <3>1. CASE u = t /\ i = n
      BY <2>2, <3>1, <1>3, <1>7
    <3>2. CASE ~(u = t /\ i = n)
      <4>1. i \in 1..Len(c[u]) /\ c2[u][i] = c[u][i]
        BY <3>2, <1>4
      <4>2. c[u][i].msg.id = m
        BY <2>2, <4>1
      <4>3. h[m] \o c[u][i].todo = d[m]
        BY <4>1, <4>2, <1>1 DEF Delivered
      <4> QED BY <4>1, <4>3
    <3> QED BY <3>1, <3>2
  <2>3. ASSUME \A u \in Publishers : \A i \in 1..Len(c2[u]) : c2[u][i].msg.id # m
        PROVE  h[m] = d[m]
    <3>1. ASSUME NEW u \in Publishers, NEW i \in 1..Len(c[u])
          PROVE  i \in 1..Len(c2[u]) /\ c2[u][i] = c[u][i]
      <4>1. CASE u = t
        BY <4>1, <1>2, <1>3
      <4>2. CASE u # t
        BY <4>2, <1>3
      <4> QED BY <4>1, <4>2
    <3>2. \A u \in Publishers : \A i \in 1..Len(c[u]) : c[u][i].msg.id # m
      BY <2>3, <3>1
    <3> QED BY <3>2, <1>1 DEF Delivered
  <2> QED BY <2>1, <2>2, <2>3
<1> QED BY <1>8, <1>9, <1>10 DEF StacksOK

\* A call that has nobody left to notify returns.
LEMMA PopKeeps ==
  ASSUME NEW c \in [Publishers -> Seq(Call)], NEW s \in Nat,
         NEW h \in [Messages -> Seq(Handlers)], NEW d \in [Messages -> Seq(Handlers)],
         NEW t \in Publishers, c[t] # <<>>, Last(c[t]).todo = <<>>, StacksOK(c, s, h, d)
  PROVE  StacksOK([c EXCEPT ![t] = Front(c[t])], s, h, d)
<1> DEFINE n == Len(c[t])
           id == c[t][n].msg.id
           c2 == [c EXCEPT ![t] = Front(c[t])]
<1>1. OneCallEach(c, s) /\ OnlyInnermost(c, h, d) /\ Delivered(c, s, h, d)
  BY DEF StacksOK
<1>2. /\ n \in Nat \ {0} /\ Last(c[t]) = c[t][n] /\ Len(c2[t]) = n - 1
      /\ \A i \in 1..(n - 1) : c2[t][i] = c[t][i]
      /\ \A u \in Publishers : u # t => c2[u] = c[u]
  <2>1. c[t] \in Seq(Call)
    OBVIOUS
  <2>2. c2[t] = Front(c[t]) /\ \A u \in Publishers : u # t => c2[u] = c[u]
    OBVIOUS
  <2> QED BY <2>1, <2>2, FrontFacts, ZenonT(40)
<1>3. ASSUME NEW u \in Publishers, NEW i \in 1..Len(c2[u])
      PROVE  /\ i \in 1..Len(c[u]) /\ c2[u][i] = c[u][i] /\ ~(u = t /\ i = n)
             /\ u # t => Len(c2[u]) = Len(c[u])
  <2>1. CASE u = t
    BY <2>1, <1>2
  <2>2. CASE u # t
    BY <2>2, <1>2
  <2> QED BY <2>1, <2>2
<1>4. ASSUME NEW u \in Publishers, NEW i \in 1..Len(c[u]), ~(u = t /\ i = n)
      PROVE  i \in 1..Len(c2[u]) /\ c2[u][i] = c[u][i]
  <2>1. CASE u = t
    BY <2>1, <1>4, <1>2
  <2>2. CASE u # t
    BY <2>2, <1>2
  <2> QED BY <2>1, <2>2
<1>5. OneCallEach(c2, s)
  <2>1. ASSUME NEW u \in Publishers, NEW i \in 1..Len(c2[u])
        PROVE  c2[u][i].msg.id <= s
    BY <1>1, <1>3 DEF OneCallEach
  <2>2. ASSUME NEW u \in Publishers, NEW v \in Publishers,
               NEW i \in 1..Len(c2[u]), NEW j \in 1..Len(c2[v]),
               c2[u][i].msg.id = c2[v][j].msg.id
        PROVE  u = v /\ i = j
    <3>1. /\ i \in 1..Len(c[u]) /\ c2[u][i] = c[u][i]
          /\ j \in 1..Len(c[v]) /\ c2[v][j] = c[v][j]
      BY <1>3
    <3>2. c[u][i].msg.id = c[v][j].msg.id
      BY <2>2, <3>1
    <3> QED BY <3>1, <3>2, <1>1 DEF OneCallEach
  <2> QED BY <2>1, <2>2 DEF OneCallEach
<1>6. OnlyInnermost(c2, h, d)
  <2> SUFFICES ASSUME NEW u \in Publishers, NEW i \in 1..Len(c2[u]), c2[u][i].phase # "notify"
               PROVE  /\ i = Len(c2[u]) /\ c2[u][i].todo = <<>>
                      /\ h[c2[u][i].msg.id] = <<>> /\ d[c2[u][i].msg.id] = <<>>
    BY DEF OnlyInnermost
  <2>1. i \in 1..Len(c[u]) /\ c2[u][i] = c[u][i] /\ ~(u = t /\ i = n)
    BY <1>3
  <2>2. c[u][i].phase # "notify"
    BY <2>1
  <2>3. /\ i = Len(c[u]) /\ c[u][i].todo = <<>>
        /\ h[c[u][i].msg.id] = <<>> /\ d[c[u][i].msg.id] = <<>>
    BY <2>1, <2>2, <1>1 DEF OnlyInnermost
  <2> QED BY <2>1, <2>3, <1>3
<1>7. Delivered(c2, s, h, d)
  <2> SUFFICES ASSUME NEW m \in Messages
               PROVE  /\ m > s => h[m] = <<>> /\ d[m] = <<>>
                      /\ \A u \in Publishers : \A i \in 1..Len(c2[u]) :
                           c2[u][i].msg.id = m => h[m] \o c2[u][i].todo = d[m]
                      /\ (\A u \in Publishers : \A i \in 1..Len(c2[u]) :
                            c2[u][i].msg.id # m) => h[m] = d[m]
    BY DEF Delivered
  <2>1. m > s => h[m] = <<>> /\ d[m] = <<>>
    BY <1>1 DEF Delivered
  <2>2. ASSUME NEW u \in Publishers, NEW i \in 1..Len(c2[u]), c2[u][i].msg.id = m
        PROVE  h[m] \o c2[u][i].todo = d[m]
    <3>1. i \in 1..Len(c[u]) /\ c2[u][i] = c[u][i]
      BY <1>3
    <3>2. c[u][i].msg.id = m
      BY <2>2, <3>1
    <3>3. h[m] \o c[u][i].todo = d[m]
      BY <3>1, <3>2, <1>1 DEF Delivered
    <3> QED BY <3>1, <3>3
  <2>3. ASSUME \A u \in Publishers : \A i \in 1..Len(c2[u]) : c2[u][i].msg.id # m
        PROVE  h[m] = d[m]
    <3>1. CASE m = id
      <4>0. n \in 1..Len(c[t]) /\ c[t][n].msg.id = m
        BY <3>1, <1>2
      <4>1. h[m] \o c[t][n].todo = d[m]
        BY <4>0, <1>1 DEF Delivered
      <4>2. h[m] \o <<>> = h[m]
        OBVIOUS
      <4> QED BY <4>1, <4>2, <1>2
    <3>2. CASE m # id
      <4>1. \A u \in Publishers : \A i \in 1..Len(c[u]) : c[u][i].msg.id # m
        <5> SUFFICES ASSUME NEW u \in Publishers, NEW i \in 1..Len(c[u]), c[u][i].msg.id = m
                     PROVE  FALSE
          OBVIOUS
        <5>1. ~(u = t /\ i = n)
          BY <3>2
        <5>2. i \in 1..Len(c2[u]) /\ c2[u][i] = c[u][i]
          BY <5>1, <1>4
        <5> QED BY <5>2, <2>3
      <4> QED BY <4>1, <1>1 DEF Delivered
    <3> QED BY <3>1, <3>2
  <2> QED BY <2>1, <2>2, <2>3
<1> QED BY <1>5, <1>6, <1>7 DEF StacksOK

----------
LEMMA LastAppend ==
  ASSUME NEW S, NEW s \in Seq(S), NEW x \in S
  PROVE  Append(s, x) # <<>> /\ Last(Append(s, x)) = x
<1>1. Len(Append(s, x)) = Len(s) + 1 /\ Append(s, x)[Len(s) + 1] = x
  OBVIOUS
<1>2. Len(s) \in Nat
  OBVIOUS
<1>3. Append(s, x) # <<>>
  BY <1>1, <1>2
<1> QED BY <1>1, <1>3 DEF Last

\* One handler more was called, and one fewer is left.
LEMMA CallNext ==
  ASSUME NEW S, NEW s \in Seq(S), NEW q \in Seq(S), q # <<>>
  PROVE  /\ Head(q) \in S /\ Tail(q) \in Seq(S)
         /\ Append(s, Head(q)) \o Tail(q) = s \o q
OBVIOUS

LEMMA UntrimmedFinite ==
  IsFiniteSet(Untrimmed) /\ Cardinality(Untrimmed) \in Nat
<1>1. Untrimmed \subseteq Publishers
  BY DEF Untrimmed
<1> QED BY <1>1, QueueAssumption, FS_Subset, FS_CardinalityType

\* What is known of the innermost call of a thread.
LEMMA InnermostCall ==
  ASSUME Types, StacksOK(calls, sent, heard, due), NEW t \in Publishers,
         NEW phase, Running(t, phase)
  PROVE  /\ calls[t] \in Seq(Call) /\ calls[t] # <<>>
         /\ Last(calls[t]) \in Call /\ Last(calls[t]).phase = phase
         /\ Last(calls[t]).msg \in Message /\ Last(calls[t]).todo \in Seq(Handlers)
         /\ Last(calls[t]).msg.id \in Messages /\ Last(calls[t]).msg.id <= sent
         /\ heard[Last(calls[t]).msg.id] \o Last(calls[t]).todo = due[Last(calls[t]).msg.id]
         /\ phase # "notify" =>
              /\ Last(calls[t]).todo = <<>>
              /\ heard[Last(calls[t]).msg.id] = <<>> /\ due[Last(calls[t]).msg.id] = <<>>
         /\ \A i \in 1..(Len(calls[t]) - 1) : calls[t][i].phase = "notify"
<1>1. calls[t] \in Seq(Call) /\ calls[t] # <<>> /\ calls \in [Publishers -> Seq(Call)]
  BY DEF Types, Running
<1>2. /\ Len(calls[t]) \in Nat \ {0} /\ Last(calls[t]) = calls[t][Len(calls[t])]
  BY <1>1, FrontFacts
<1>3. Len(calls[t]) \in 1..Len(calls[t])
  BY <1>2
<1>4. /\ Last(calls[t]) \in Call /\ Last(calls[t]).msg \in Message
      /\ Last(calls[t]).msg.id \in Messages /\ Last(calls[t]).todo \in Seq(Handlers)
  BY <1>1, <1>2, <1>3, CallFacts
<1>5. Last(calls[t]).msg.id <= sent
  BY <1>2, <1>3 DEF StacksOK, OneCallEach
<1>6. heard[Last(calls[t]).msg.id] \o Last(calls[t]).todo = due[Last(calls[t]).msg.id]
  <2> DEFINE n == Len(calls[t])
             m == calls[t][n].msg.id
  <2>1. n \in 1..Len(calls[t]) /\ m \in Messages
    BY <1>2, <1>3, <1>4
  <2>2. Delivered(calls, sent, heard, due)
    BY ZenonT(40) DEF StacksOK
  <2>3. \A u \in Publishers : \A i \in 1..Len(calls[u]) :
          calls[u][i].msg.id = m => heard[m] \o calls[u][i].todo = due[m]
    BY <2>1, <2>2, ZenonT(40) DEF Delivered
  <2>4. heard[m] \o calls[t][n].todo = due[m]
    BY <2>1, <2>3, ZenonT(40)
  <2> QED BY <2>4, <1>2, ZenonT(40)
<1>7. phase # "notify" =>
        /\ Last(calls[t]).todo = <<>>
        /\ heard[Last(calls[t]).msg.id] = <<>> /\ due[Last(calls[t]).msg.id] = <<>>
  BY <1>2, <1>3 DEF StacksOK, OnlyInnermost, Running
<1>8. ASSUME NEW i \in 1..(Len(calls[t]) - 1)
      PROVE  calls[t][i].phase = "notify"
  <2>1. i \in 1..Len(calls[t]) /\ i # Len(calls[t])
    BY <1>2
  <2> QED BY <2>1 DEF StacksOK, OnlyInnermost
<1> QED BY <1>1, <1>4, <1>5, <1>6, <1>7, <1>8 DEF Running

LEMMA UntrimmedCall ==
  ASSUME Types, StacksOK(calls, sent, heard, due), NEW t \in Publishers,
         NEW phase \in {"check", "pop"}, Running(t, phase)
  PROVE  /\ Last(calls[t]).todo = <<>>
         /\ heard[Last(calls[t]).msg.id] = <<>> /\ due[Last(calls[t]).msg.id] = <<>>
<1>1. phase # "notify"
  OBVIOUS
<1> QED BY <1>1, InnermostCall

\* publish() up to the append, on top of stacks c that are those of calls but for
\* thread t.
LEMMA BeginKeeps ==
  ASSUME Types, HistoryIsTheNewest, NEW t \in Publishers, t \notin Untrimmed,
         NEW type \in Topics, NEW cause \in 0..sent,
         NEW c \in [Publishers -> Seq(Call)], \A u \in Publishers : u # t => c[u] = calls[u],
         \A i \in 1..Len(c[t]) : c[t][i].phase = "notify",
         NEW h \in [Messages -> Seq(Handlers)], NEW d \in [Messages -> Seq(Handlers)],
         StacksOK(c, sent, h, d), Begin(t, type, cause, c[t])
  PROVE  /\ sent' \in 0..MaxMessages /\ history' \in Seq(Message)
         /\ calls' \in [Publishers -> Seq(Call)]
         /\ StacksOK(calls', sent', h, d) /\ HistoryIsTheNewest'
<1> DEFINE msg == [id |-> sent + 1, type |-> type, cause |-> cause]
           new == [msg |-> msg, phase |-> "check", todo |-> <<>>]
<1>1. /\ sent \in Nat /\ sent < MaxMessages /\ sent' = sent + 1
      /\ history' = Append(history, msg)
      /\ calls' = [calls EXCEPT ![t] = Append(c[t], new)]
  BY QueueAssumption DEF Begin, Types
<1>2. sent + 1 \in Messages /\ sent' \in 0..MaxMessages
  BY <1>1, QueueAssumption DEF Messages
<1>3. cause \in 0..MaxMessages
  BY <1>1, QueueAssumption
<1>4. msg \in Message
  BY <1>2, <1>3 DEF Message
<1>5. new \in Call /\ new.msg.id = sent + 1 /\ new.todo = <<>>
  BY <1>4 DEF Call
<1>6. history \in Seq(Message) /\ history' \in Seq(Message)
  BY <1>1, <1>4 DEF Types
<1>7. calls' = [c EXCEPT ![t] = Append(c[t], new)]
  <2>1. calls \in [Publishers -> Seq(Call)]
    BY DEF Types
  <2> QED BY <1>1, <2>1
<1>8. c[t] \in Seq(Call)
  OBVIOUS
<1>9. Append(c[t], new) \in Seq(Call)
  BY <1>5, <1>8
<1>10. calls' \in [Publishers -> Seq(Call)]
  BY <1>7, <1>9
<1>11. StacksOK([c EXCEPT ![t] = Append(c[t], new)], sent + 1, h, d)
  <2> HIDE DEF new
  <2> QED BY <1>1, <1>5, PushKeeps
<1>12. Untrimmed' = Untrimmed \cup {t}
  <2>1. calls'[t] # <<>> /\ Last(calls'[t]).phase # "notify"
    <3>1. calls'[t] = Append(c[t], new)
      BY <1>7
    <3> HIDE DEF new
    <3>2. Append(c[t], new) # <<>> /\ Last(Append(c[t], new)) = new
      BY <1>5, <1>8, LastAppend
    <3>3. new.phase = "check"
      BY DEF new
    <3> QED BY <3>1, <3>2, <3>3
  <2>2. \A u \in Publishers : u # t => calls'[u] = calls[u]
    BY <1>7
  <2> QED BY <2>1, <2>2 DEF Untrimmed
<1>13. Cardinality(Untrimmed') = Cardinality(Untrimmed) + 1
  BY <1>12, UntrimmedFinite, FS_AddElement
<1>14. Len(history') <= MaxHistory + Cardinality(Untrimmed')
  <2>1. Len(history') = Len(history) + 1 /\ Len(history) \in Nat
    BY <1>1, <1>6
  <2>2. Len(history) <= MaxHistory + Cardinality(Untrimmed)
    BY DEF HistoryIsTheNewest
  <2> QED BY <2>1, <2>2, <1>13, UntrimmedFinite, QueueAssumption
<1>15. ASSUME NEW k \in DOMAIN history'
       PROVE  /\ history'[k].id = sent' - Len(history') + k
              /\ history'[k].cause < history'[k].id
  <2>1. Len(history) \in Nat /\ Len(history') = Len(history) + 1 /\ k \in 1..Len(history')
    BY <1>1, <1>6
  <2>2. CASE k = Len(history) + 1
    <3>1. history'[k] = msg
      BY <2>2, <1>1, <1>6
    <3> QED BY <3>1, <2>1, <2>2, <1>1
  <2>3. CASE k # Len(history) + 1
    <3>1. k \in DOMAIN history /\ history'[k] = history[k]
      BY <2>1, <2>3, <1>1, <1>6
    <3>2. /\ history[k].id = sent - Len(history) + k /\ history[k].cause < history[k].id
      BY <3>1 DEF HistoryIsTheNewest
    <3> QED BY <3>1, <3>2, <2>1, <1>1
  <2> QED BY <2>2, <2>3
<1>16. HistoryIsTheNewest'
  BY <1>14, <1>15, ZenonT(40) DEF HistoryIsTheNewest
<1> QED BY <1>1, <1>2, <1>6, <1>7, <1>10, <1>11, <1>16

----------
\* Notify, whose call has trimmed the history.
LEMMA NotifyKeeps ==
  ASSUME Types, StacksOK(calls, sent, heard, due), NEW t \in Publishers,
         NEW phase \in {"check", "pop"}, Running(t, phase),
         Notify(t, Last(calls[t])), sent' = sent, heard' = heard
  PROVE  /\ calls' \in [Publishers -> Seq(Call)] /\ due' \in [Messages -> Seq(Handlers)]
         /\ StacksOK(calls', sent', heard', due')
         /\ Untrimmed' = Untrimmed \ {t} /\ t \in Untrimmed
<1> DEFINE call == Last(calls[t])
           id == call.msg.id
           handlers == subscribers[call.msg.type] \o subscribers["*"]
           new == [call EXCEPT !.phase = "notify", !.todo = handlers]
<1>1. /\ calls[t] \in Seq(Call) /\ calls[t] # <<>> /\ call \in Call /\ call.phase = phase
      /\ call.msg \in Message /\ id \in Messages
      /\ heard[id] = <<>> /\ due[id] = <<>>
  BY InnermostCall
<1>2. handlers \in Seq(Handlers)
  <2>1. call.msg.type \in Topics
    BY <1>1 DEF Message
  <2> QED BY <2>1 DEF Types
<1>3. new \in Call /\ new.msg = call.msg /\ new.phase = "notify" /\ new.todo = handlers
  BY <1>1, <1>2 DEF Call
<1>4. calls \in [Publishers -> Seq(Call)] /\ due \in [Messages -> Seq(Handlers)]
      /\ heard \in [Messages -> Seq(Handlers)] /\ sent \in Nat
  BY QueueAssumption DEF Types
<1>5. /\ calls' = [calls EXCEPT ![t] = Append(Front(calls[t]), new)]
      /\ due' = [due EXCEPT ![new.msg.id] = handlers]
  BY <1>3 DEF Notify, GoOn
<1>6. heard = [heard EXCEPT ![new.msg.id] = <<>>]
  BY <1>1, <1>3, <1>4
<1>7. Front(calls[t]) \in Seq(Call) /\ Append(Front(calls[t]), new) \in Seq(Call)
  BY <1>1, <1>3, FrontFacts
<1>8. <<>> \in Seq(Handlers) /\ <<>> \o handlers = handlers
  BY <1>2
<1>9. StacksOK([calls EXCEPT ![t] = Append(Front(calls[t]), new)], sent,
               [heard EXCEPT ![new.msg.id] = <<>>], [due EXCEPT ![new.msg.id] = handlers])
  <2> HIDE DEF new, handlers
  <2> QED BY <1>1, <1>2, <1>3, <1>4, <1>8, GoOnKeeps
<1>10. Untrimmed' = Untrimmed \ {t} /\ t \in Untrimmed
  <2> HIDE DEF new
  <2>1. Last(calls'[t]) = new
    BY <1>3, <1>4, <1>5, <1>7, LastAppend
  <2>2. \A u \in Publishers : u # t => calls'[u] = calls[u]
    BY <1>4, <1>5
  <2>3. call.phase # "notify"
    BY <1>1
  <2> QED BY <2>1, <2>2, <2>3, <1>1, <1>3 DEF Untrimmed
<1> QED BY <1>4, <1>5, <1>6, <1>7, <1>9, <1>10, <1>2, <1>3, <1>1, ZenonT(40)

\* A call that has nobody left to notify is taken off its stack.
LEMMA ReturnKeeps ==
  ASSUME Types, StacksOK(calls, sent, heard, due), NEW t \in Publishers,
         NEW phase, Running(t, phase), Last(calls[t]).todo = <<>>,
         calls' = [calls EXCEPT ![t] = Front(@)]
  PROVE  /\ calls' \in [Publishers -> Seq(Call)]
         /\ StacksOK(calls', sent, heard, due) /\ Untrimmed' = Untrimmed \ {t}
<1>1. /\ calls[t] \in Seq(Call) /\ calls[t] # <<>>
      /\ \A i \in 1..(Len(calls[t]) - 1) : calls[t][i].phase = "notify"
  BY InnermostCall
<1>2. /\ Front(calls[t]) \in Seq(Call) /\ Len(Front(calls[t])) = Len(calls[t]) - 1
      /\ \A i \in 1..(Len(calls[t]) - 1) : Front(calls[t])[i] = calls[t][i]
  BY <1>1, FrontFacts
<1>3. calls \in [Publishers -> Seq(Call)] /\ due \in [Messages -> Seq(Handlers)]
      /\ heard \in [Messages -> Seq(Handlers)] /\ sent \in Nat
  BY QueueAssumption DEF Types
<1>4. StacksOK(calls', sent, heard, due)
  BY <1>1, <1>3, PopKeeps
<1>5. calls'[t] = Front(calls[t]) /\ \A u \in Publishers : u # t => calls'[u] = calls[u]
  BY <1>3
<1>6. calls'[t] # <<>> => Last(calls'[t]).phase = "notify"
  <2> SUFFICES ASSUME calls'[t] # <<>>
               PROVE  Last(calls'[t]).phase = "notify"
    OBVIOUS
  <2> DEFINE n == Len(Front(calls[t]))
  <2>1. n \in Nat \ {0} /\ Last(Front(calls[t])) = Front(calls[t])[n]
    <3>1. Front(calls[t]) \in Seq(Call) /\ Front(calls[t]) # <<>>
      BY <1>2, <1>5
    <3> QED BY <3>1, FrontFacts
  <2>2. n \in 1..(Len(calls[t]) - 1)
    <3>1. Len(calls[t]) - 1 = n
      BY <1>2
    <3> HIDE DEF n
    <3> QED BY <2>1, <3>1
  <2> QED BY <2>1, <2>2, <1>1, <1>2, <1>5
<1>7. Untrimmed' = Untrimmed \ {t}
  BY <1>5, <1>6 DEF Untrimmed
<1> QED BY <1>2, <1>3, <1>4, <1>7

----------
\* The history is as it was, and so is the number of calls that are to trim it.
LEMMA SameHistory ==
  ASSUME HistoryIsTheNewest, history' = history, sent' = sent,
         Len(history) <= MaxHistory \/ Untrimmed' = Untrimmed,
         IsFiniteSet(Untrimmed'), Types
  PROVE  HistoryIsTheNewest'
<1>1. Cardinality(Untrimmed') \in Nat
  BY FS_CardinalityType
<1>2. Len(history) \in Nat
  BY DEF Types
<1>3. Len(history) <= MaxHistory + Cardinality(Untrimmed')
  BY <1>1, <1>2, QueueAssumption DEF HistoryIsTheNewest
<1> QED BY <1>3 DEF HistoryIsTheNewest

LEMMA EmptyHistory ==
  ASSUME history' = <<>>, IsFiniteSet(Untrimmed')
  PROVE  HistoryIsTheNewest'
<1>1. Cardinality(Untrimmed') \in Nat
  BY FS_CardinalityType
<1>2. Len(history') = 0 /\ DOMAIN history' = {}
  OBVIOUS
<1>3. 0 <= MaxHistory + Cardinality(Untrimmed')
  BY <1>1, QueueAssumption
<1> QED BY <1>2, <1>3 DEF HistoryIsTheNewest

LEMMA UntrimmedStaysFinite == IsFiniteSet(Untrimmed')
<1>1. Untrimmed' \subseteq Publishers
  BY DEF Untrimmed
<1> QED BY <1>1, QueueAssumption, FS_Subset

LEMMA StacksBegin == QueueInit => StacksInv
<1> SUFFICES ASSUME QueueInit PROVE StacksInv
  OBVIOUS
<1>1. Types
  BY QueueAssumption DEF QueueInit, Types
<1>2. \A t \in Publishers : 1..Len(calls[t]) = {}
  BY DEF QueueInit
<1>3. StacksOK(calls, sent, heard, due)
  BY <1>2 DEF StacksOK, OneCallEach, OnlyInnermost, Delivered, QueueInit
<1>4. HistoryIsTheNewest
  <2>1. Len(history) = 0 /\ DOMAIN history = {}
    BY DEF QueueInit
  <2>2. 0 <= MaxHistory + Cardinality(Untrimmed)
    BY UntrimmedFinite, QueueAssumption
  <2> QED BY <2>1, <2>2 DEF HistoryIsTheNewest
<1> QED BY <1>1, <1>3, <1>4 DEF StacksInv

LEMMA StacksStay == StacksInv /\ [QueueNext]_queueVars => StacksInv'
<1> SUFFICES ASSUME StacksInv, [QueueNext]_queueVars PROVE StacksInv'
  OBVIOUS
<1>0. Types /\ StacksOK(calls, sent, heard, due) /\ HistoryIsTheNewest
  BY DEF StacksInv
<1>1. ASSUME NEW key \in DOMAIN subscribers, NEW h \in Handlers, Subscribe(key, h)
      PROVE  StacksInv'
  <2>1. Types'
    <3>1. subscribers[key] \in Seq(Handlers)
      BY <1>0 DEF Types
    <3>2. Append(subscribers[key], h) \in Seq(Handlers)
      BY <3>1
    <3> QED BY <1>0, <1>1, <3>2 DEF Types, Subscribe
  <2>2. StacksOK(calls', sent', heard', due')
    BY <1>0, <1>1 DEF Subscribe
  <2>3. HistoryIsTheNewest'
    BY <1>0, <1>1, SameHistory, UntrimmedStaysFinite DEF Subscribe, Untrimmed
  <2> QED BY <2>1, <2>2, <2>3 DEF StacksInv
<1>2. ASSUME NEW t \in Publishers, NEW type \in Topics, Publish(t, type)
      PROVE  StacksInv'
  <2>1. calls[t] = <<>> /\ Begin(t, type, 0, calls[t]) /\ t \notin Untrimmed
    BY <1>2 DEF Publish, Untrimmed
  <2>2. UNCHANGED <<subscribers, heard, due>>
    BY <1>2 DEF Publish
  <2>3. /\ 0 \in 0..sent /\ calls \in [Publishers -> Seq(Call)]
        /\ heard \in [Messages -> Seq(Handlers)] /\ due \in [Messages -> Seq(Handlers)]
    BY <1>0, QueueAssumption DEF Types
  <2>4. \A i \in 1..Len(calls[t]) : calls[t][i].phase = "notify"
    BY <2>1
  <2>5. /\ sent' \in 0..MaxMessages /\ history' \in Seq(Message)
        /\ calls' \in [Publishers -> Seq(Call)]
        /\ StacksOK(calls', sent', heard, due) /\ HistoryIsTheNewest'
    BY <1>0, <2>1, <2>3, <2>4, BeginKeeps
  <2>6. Types'
    BY <1>0, <2>2, <2>5 DEF Types
  <2> QED BY <2>2, <2>5, <2>6 DEF StacksInv
<1>3. ASSUME NEW t \in Publishers, Check(t)
      PROVE  StacksInv'
  <2> DEFINE call == Last(calls[t])
             new == [call EXCEPT !.phase = "pop"]
  <2>1. Running(t, "check") /\ UNCHANGED <<subscribers, history, sent, heard>>
    BY <1>3 DEF Check
  <2>2. /\ calls[t] \in Seq(Call) /\ calls[t] # <<>> /\ call \in Call /\ call.phase = "check"
        /\ call.msg.id \in Messages /\ call.todo = <<>>
        /\ heard[call.msg.id] = <<>> /\ due[call.msg.id] = <<>>
    <3>1. /\ calls[t] \in Seq(Call) /\ calls[t] # <<>> /\ call \in Call
          /\ call.phase = "check" /\ call.msg.id \in Messages
      BY <1>0, <2>1, InnermostCall
    <3>2. /\ call.todo = <<>> /\ heard[call.msg.id] = <<>> /\ due[call.msg.id] = <<>>
      BY <1>0, <2>1, UntrimmedCall
    <3> QED BY <3>1, <3>2
  <2>3. CASE Len(history) > MaxHistory
    <3>1. calls' = [calls EXCEPT ![t] = Append(Front(calls[t]), new)] /\ due' = due
      BY <1>3, <2>3 DEF Check, GoOn
    <3>2. /\ new \in Call /\ new.msg = call.msg /\ new.phase = "pop" /\ new.todo = <<>>
      BY <2>2 DEF Call
    <3>3. /\ calls \in [Publishers -> Seq(Call)] /\ sent \in Nat
          /\ heard \in [Messages -> Seq(Handlers)] /\ due \in [Messages -> Seq(Handlers)]
      BY <1>0, QueueAssumption DEF Types
    <3>4. /\ heard = [heard EXCEPT ![new.msg.id] = <<>>]
          /\ due = [due EXCEPT ![new.msg.id] = <<>>]
      BY <2>2, <3>2, <3>3
    <3>5. StacksOK([calls EXCEPT ![t] = Append(Front(calls[t]), new)], sent,
                   [heard EXCEPT ![new.msg.id] = <<>>], [due EXCEPT ![new.msg.id] = <<>>])
      <4> HIDE DEF new
      <4>1. <<>> \in Seq(Handlers) /\ <<>> \o new.todo = <<>>
        BY <3>2
      <4> QED BY <1>0, <2>2, <3>2, <3>3, <4>1, GoOnKeeps
    <3>6. Front(calls[t]) \in Seq(Call) /\ Append(Front(calls[t]), new) \in Seq(Call)
      BY <2>2, <3>2, FrontFacts
    <3>7. Untrimmed' = Untrimmed
      <4> HIDE DEF new
      <4>1. calls'[t] # <<>> /\ Last(calls'[t]) = new
        BY <3>1, <3>2, <3>3, <3>6, LastAppend
      <4>2. \A u \in Publishers : u # t => calls'[u] = calls[u]
        BY <3>1, <3>3
      <4> QED BY <4>1, <4>2, <2>2, <3>2 DEF Untrimmed
    <3>8. HistoryIsTheNewest'
      BY <1>0, <2>1, <3>7, SameHistory, UntrimmedStaysFinite
    <3>9. Types'
      <4>1. calls' \in [Publishers -> Seq(Call)]
        BY <3>1, <3>3, <3>6
      <4> QED BY <1>0, <2>1, <3>1, <4>1 DEF Types
    <3>10. StacksOK(calls', sent', heard', due')
      BY <2>1, <3>1, <3>4, <3>5
    <3> QED BY <3>8, <3>9, <3>10 DEF StacksInv
  <2>4. CASE ~(Len(history) > MaxHistory)
    <3>1. Notify(t, call)
      BY <1>3, <2>4 DEF Check
    <3>2. /\ calls' \in [Publishers -> Seq(Call)] /\ due' \in [Messages -> Seq(Handlers)]
          /\ StacksOK(calls', sent', heard', due')
      BY <1>0, <2>1, <3>1, NotifyKeeps
    <3>3. Len(history) <= MaxHistory
      BY <1>0, <2>4, QueueAssumption DEF Types
    <3>4. HistoryIsTheNewest'
      BY <1>0, <2>1, <3>3, SameHistory, UntrimmedStaysFinite
    <3>5. Types'
      BY <1>0, <2>1, <3>2 DEF Types
    <3> QED BY <3>2, <3>4, <3>5 DEF StacksInv
  <2> QED BY <2>3, <2>4
<1>4. ASSUME NEW t \in Publishers, Pop(t)
      PROVE  StacksInv'
  <2>1. Running(t, "pop") /\ UNCHANGED <<subscribers, sent, heard>>
    BY <1>4 DEF Pop
  <2>2. CASE history # <<>>
    <3>1. history' = Tail(history) /\ Notify(t, Last(calls[t]))
      BY <1>4, <2>2 DEF Pop, DropOldest
    <3>2. /\ calls' \in [Publishers -> Seq(Call)] /\ due' \in [Messages -> Seq(Handlers)]
          /\ StacksOK(calls', sent', heard', due')
          /\ Untrimmed' = Untrimmed \ {t} /\ t \in Untrimmed
      BY <1>0, <2>1, <3>1, NotifyKeeps
    <3>3. Cardinality(Untrimmed') = Cardinality(Untrimmed) - 1
      BY <3>2, UntrimmedFinite, FS_RemoveElement
    <3>4. /\ history' \in Seq(Message) /\ Len(history') = Len(history) - 1
          /\ \A k \in 1..Len(history') : history'[k] = history[k + 1]
          /\ history \in Seq(Message)
      <4>1. history \in Seq(Message)
        BY <1>0 DEF Types
      <4> QED BY <4>1, <3>1, <2>2, HeadTailProperties
    <3>5. Len(history') <= MaxHistory + Cardinality(Untrimmed')
      BY <1>0, <3>3, <3>4, UntrimmedFinite, QueueAssumption DEF HistoryIsTheNewest
    <3>6. ASSUME NEW k \in DOMAIN history'
          PROVE  /\ history'[k].id = sent' - Len(history') + k
                 /\ history'[k].cause < history'[k].id
      <4>1. /\ k \in 1..Len(history') /\ history'[k] = history[k + 1]
            /\ k + 1 \in DOMAIN history /\ Len(history) \in Nat
        BY <3>4
      <4>2. /\ history[k + 1].id = sent - Len(history) + (k + 1)
            /\ history[k + 1].cause < history[k + 1].id
        BY <1>0, <4>1 DEF HistoryIsTheNewest
      <4>3. sent \in Int
        BY <1>0 DEF Types
      <4> QED BY <4>1, <4>2, <4>3, <3>4, <2>1
    <3>7. HistoryIsTheNewest'
      BY <3>5, <3>6 DEF HistoryIsTheNewest
    <3>8. Types'
      BY <1>0, <2>1, <3>2, <3>4 DEF Types
    <3> QED BY <3>2, <3>7, <3>8 DEF StacksInv
  <2>3. CASE history = <<>>
    <3>1. calls' = [calls EXCEPT ![t] = Front(@)] /\ UNCHANGED <<history, due>>
      BY <1>4, <2>3 DEF Pop
    <3>2. Last(calls[t]).todo = <<>>
      BY <1>0, <2>1, UntrimmedCall
    <3>3. calls' \in [Publishers -> Seq(Call)] /\ StacksOK(calls', sent, heard, due)
      BY <1>0, <2>1, <3>1, <3>2, ReturnKeeps
    <3>4. HistoryIsTheNewest'
      BY <2>3, <3>1, EmptyHistory, UntrimmedStaysFinite
    <3>5. Types'
      BY <1>0, <2>1, <3>1, <3>3 DEF Types
    <3> QED BY <2>1, <3>1, <3>3, <3>4, <3>5 DEF StacksInv
  <2> QED BY <2>2, <2>3
<1>5. ASSUME NEW t \in Publishers, Handle(t)
      PROVE  StacksInv'
  <2> DEFINE call == Last(calls[t])
             id == call.msg.id
             h == Head(call.todo)
             new == [call EXCEPT !.todo = Tail(call.todo)]
             goesOn == [calls EXCEPT ![t] = Append(Front(calls[t]), new)]
  <2>1. /\ Running(t, "notify") /\ call.todo # <<>> /\ UNCHANGED <<subscribers, due>>
        /\ heard' = [heard EXCEPT ![id] = Append(heard[id], h)]
    BY <1>5 DEF Handle
  <2>2. /\ calls[t] \in Seq(Call) /\ calls[t] # <<>> /\ call \in Call
        /\ call.phase = "notify" /\ call.todo \in Seq(Handlers)
        /\ id \in Messages /\ id <= sent /\ heard[id] \o call.todo = due[id]
        /\ \A i \in 1..(Len(calls[t]) - 1) : calls[t][i].phase = "notify"
    BY <1>0, <2>1, InnermostCall, ZenonT(40)
  <2>3. /\ calls \in [Publishers -> Seq(Call)] /\ sent \in Nat
        /\ heard \in [Messages -> Seq(Handlers)] /\ due \in [Messages -> Seq(Handlers)]
    BY <1>0, QueueAssumption DEF Types
  <2>4. /\ Append(heard[id], h) \in Seq(Handlers) /\ Tail(call.todo) \in Seq(Handlers)
        /\ Append(heard[id], h) \o Tail(call.todo) = due[id]
    <3>1. heard[id] \in Seq(Handlers)
      BY <2>2, <2>3, ZenonT(40)
    <3>2. /\ h \in Handlers /\ Tail(call.todo) \in Seq(Handlers)
          /\ Append(heard[id], h) \o Tail(call.todo) = heard[id] \o call.todo
      BY <2>1, <2>2, <3>1, CallNext, ZenonT(40)
    <3>3. Append(heard[id], h) \in Seq(Handlers)
      <4> HIDE DEF h, id
      <4> QED BY <3>1, <3>2
    <3> QED BY <2>2, <3>2, <3>3, ZenonT(40)
  <2>5. /\ new \in Call /\ new.msg = call.msg /\ new.phase = "notify"
        /\ new.todo = Tail(call.todo)
    BY <2>2, <2>4, ZenonT(40) DEF Call
  <2>6. heard' \in [Messages -> Seq(Handlers)]
    BY <2>1, <2>2, <2>3, <2>4, ZenonT(40)
  <2>7. StacksOK(goesOn, sent, heard', due)
    <3>1. due = [due EXCEPT ![new.msg.id] = due[id]] /\ due[id] \in Seq(Handlers)
      BY <2>2, <2>3, <2>5
    <3>2. heard' = [heard EXCEPT ![new.msg.id] = Append(heard[id], h)]
      BY <2>1, <2>5, ZenonT(40)
    <3>3. StacksOK([calls EXCEPT ![t] = Append(Front(calls[t]), new)], sent,
                   [heard EXCEPT ![new.msg.id] = Append(heard[id], h)],
                   [due EXCEPT ![new.msg.id] = due[id]])
      <4> HIDE DEF new
      <4>1. Append(heard[id], h) \o new.todo = due[id]
        BY <2>4, <2>5
      <4> QED BY <1>0, <2>2, <2>3, <2>4, <2>5, <3>1, <4>1, GoOnKeeps, ZenonT(40)
    <3> QED BY <3>1, <3>2, <3>3
  <2>8. /\ Append(Front(calls[t]), new) \in Seq(Call)
        /\ Len(Append(Front(calls[t]), new)) = Len(calls[t])
        /\ Append(Front(calls[t]), new)[Len(calls[t])] = new
        /\ \A i \in 1..(Len(calls[t]) - 1) : Append(Front(calls[t]), new)[i] = calls[t][i]
        /\ Len(calls[t]) \in Nat \ {0} /\ Front(calls[t]) \in Seq(Call)
    <3> HIDE DEF new
    <3> QED BY <2>2, <2>5, FrontFacts, ReplaceFacts
  <2>9. /\ goesOn \in [Publishers -> Seq(Call)]
        /\ goesOn[t] = Append(Front(calls[t]), new)
        /\ \A u \in Publishers : u # t => goesOn[u] = calls[u]
    BY <2>3, <2>8
  <2>10. t \notin Untrimmed
    BY <2>2 DEF Untrimmed
  <2>11. CASE Reaction[h] \in Topics
    <3>1. Begin(t, Reaction[h], id, goesOn[t])
      BY <1>5, <2>11 DEF Handle, GoOn, Left
    <3>2. ASSUME NEW i \in 1..Len(goesOn[t])
          PROVE  goesOn[t][i].phase = "notify"
      <4>1. CASE i = Len(calls[t])
        BY <4>1, <2>5, <2>8, <2>9
      <4>2. CASE i # Len(calls[t])
        <5>1. i \in 1..(Len(calls[t]) - 1)
          BY <4>2, <2>8, <2>9
        <5> QED BY <5>1, <2>2, <2>8, <2>9
      <4> QED BY <4>1, <4>2
    <3>3. id \in 0..sent
      BY <2>2, <2>3 DEF Messages
    <3>4. /\ sent' \in 0..MaxMessages /\ history' \in Seq(Message)
          /\ calls' \in [Publishers -> Seq(Call)]
          /\ StacksOK(calls', sent', heard', due) /\ HistoryIsTheNewest'
      <4> HIDE DEF goesOn, id, h
      <4> QED BY <1>0, <2>3, <2>6, <2>7, <2>9, <2>10, <2>11, <3>1, <3>2, <3>3, BeginKeeps
    <3>5. Types'
      BY <1>0, <2>1, <2>6, <3>4 DEF Types
    <3> QED BY <2>1, <3>4, <3>5 DEF StacksInv
  <2>12. CASE Reaction[h] \notin Topics
    <3>1. calls' = goesOn /\ UNCHANGED <<history, sent>>
      BY <1>5, <2>12 DEF Handle, GoOn, Left
    <3>2. Untrimmed' = Untrimmed
      <4>1. goesOn[t] # <<>> /\ Last(goesOn[t]) = new
        <5> HIDE DEF new
        <5> QED BY <2>5, <2>8, <2>9, LastAppend
      <4> QED BY <4>1, <2>2, <2>5, <2>9, <3>1 DEF Untrimmed
    <3>3. HistoryIsTheNewest'
      BY <1>0, <3>1, <3>2, SameHistory, UntrimmedStaysFinite
    <3>4. Types'
      BY <1>0, <2>1, <2>6, <2>9, <3>1 DEF Types
    <3> QED BY <2>1, <2>7, <3>1, <3>3, <3>4 DEF StacksInv
  <2> QED BY <2>11, <2>12
<1>6. ASSUME NEW t \in Publishers, Return(t)
      PROVE  StacksInv'
  <2>1. /\ Running(t, "notify") /\ Last(calls[t]).todo = <<>>
        /\ calls' = [calls EXCEPT ![t] = Front(@)]
        /\ UNCHANGED <<subscribers, history, sent, heard, due>>
    BY <1>6 DEF Return
  <2>2. /\ calls' \in [Publishers -> Seq(Call)] /\ StacksOK(calls', sent, heard, due)
        /\ Untrimmed' = Untrimmed \ {t}
    BY <1>0, <2>1, ReturnKeeps
  <2>3. Untrimmed' = Untrimmed
    BY <2>1, <2>2 DEF Untrimmed, Running
  <2>4. HistoryIsTheNewest'
    BY <1>0, <2>1, <2>3, SameHistory, UntrimmedStaysFinite
  <2>5. Types'
    BY <1>0, <2>1, <2>2 DEF Types
  <2> QED BY <2>1, <2>2, <2>4, <2>5 DEF StacksInv
<1>7. CASE ClearHistory
  <2>1. history' = <<>> /\ UNCHANGED <<subscribers, sent, calls, heard, due>>
    BY <1>7 DEF ClearHistory
  <2>2. HistoryIsTheNewest'
    BY <2>1, EmptyHistory, UntrimmedStaysFinite
  <2>3. Types'
    BY <1>0, <2>1 DEF Types
  <2> QED BY <1>0, <2>1, <2>2, <2>3 DEF StacksInv
<1>8. CASE UNCHANGED queueVars
  <2>1. UNCHANGED <<subscribers, history, sent, calls, heard, due>>
    BY <1>8 DEF queueVars
  <2>2. HistoryIsTheNewest'
    BY <1>0, <2>1, SameHistory, UntrimmedStaysFinite DEF Untrimmed
  <2>3. Types'
    BY <1>0, <2>1 DEF Types
  <2> QED BY <1>0, <2>1, <2>2, <2>3 DEF StacksInv
<1> QED BY <1>1, <1>2, <1>3, <1>4, <1>5, <1>6, <1>7, <1>8 DEF QueueNext

LEMMA StacksAlways == QueueSpec => []StacksInv
<1> QED BY StacksBegin, StacksStay, PTL DEF QueueSpec

\* The history of the queue holds the newest messages in the order of their
\* publication, and no more than _max_history of them but for those that publish()
\* is about to drop, whatever handlers publish and however threads interleave.
THEOREM HistoryIsTheNewestThm == QueueSpec => []HistoryIsTheNewest
<1>1. StacksInv => HistoryIsTheNewest
  BY DEF StacksInv
<1> QED BY <1>1, StacksAlways, PTL

\* publish() calls the handlers that were due in their order and once each, also
\* when one of them raises, publishes or subscribes another.
THEOREM DeliveredOnceThm == QueueSpec => []DeliveredOnce
<1>1. StacksInv => DeliveredOnce
  <2> SUFFICES ASSUME StacksInv PROVE DeliveredOnce
    OBVIOUS
  <2>1. Delivered(calls, sent, heard, due)
    BY DEF StacksInv, StacksOK
  <2>2. \A t \in Publishers : DOMAIN calls[t] = 1..Len(calls[t])
    BY DEF StacksInv, Types
  <2> QED BY <2>1, <2>2 DEF Delivered, DeliveredOnce
<1> QED BY <1>1, StacksAlways, PTL

----------
(* The eval router *)

\* The mean of the grades, rounded.
Mean(s) == (2 * s.sum + s.n) \div (2 * s.n)

IInv ==
  /\ scores \in [Models -> [n : Nat, sum : Nat]]
  /\ \A m \in Models : scores[m].sum <= One * scores[m].n
  /\ quality \in [Models -> 0..One]
  /\ \A m \in Models : quality[m] = Truth(m)
  /\ DOMAIN decision = Callers
  /\ \A c \in Callers : decision[c] # None => decision[c].selected \in Models

-----------------------------------------------------------------------------
\* A nonempty set of naturals has a least element.
LEMMA LeastNatural ==
  ASSUME NEW S \in SUBSET Nat, S # {}
  PROVE  \E i \in S : \A j \in S : i <= j
<1>1. PICK i \in S : \A j \in S : ~(<<j, i>> \in OpToRel(<, Nat))
  BY NatLessThanWellFounded, WFMin
<1>2. \A j \in S : ~(j < i)
  BY <1>1 DEF OpToRel
<1>3. QED
  BY <1>2

\* A non-empty set of models has a first one by any measure.
LEMMA FirstByMeasure ==
  ASSUME NEW f \in [Models -> Nat], NEW S \in SUBSET Models, S # {}
  PROVE  \E m \in S : \A n \in S \ {m} :
           f[m] < f[n] \/ (f[m] = f[n] /\ m < n)
<1> USE EvalRouterAssumption
<1> DEFINE V == {f[m] : m \in S}
<1>1. V \in SUBSET Nat /\ V # {}
  <2>1. PICK k \in S : TRUE
    OBVIOUS
  <2>2. f[k] \in V
    OBVIOUS
  <2>3. \A m \in S : f[m] \in Nat
    OBVIOUS
  <2>4. QED
    BY <2>2, <2>3
<1>2. PICK v \in V : \A w \in V : v <= w
  BY <1>1, LeastNatural
<1> DEFINE T == {m \in S : f[m] = v}
<1>3. T \in SUBSET Nat /\ T # {}
  <2>1. PICK k \in S : v = f[k]
    BY <1>2
  <2>2. k \in T
    BY <2>1
  <2>3. \A m \in T : m \in Nat
    BY DEF Models
  <2>4. QED
    BY <2>2, <2>3
<1>4. PICK m \in T : \A n \in T : m <= n
  BY <1>3, LeastNatural
<1>5. ASSUME NEW n \in S \ {m}
      PROVE  f[m] < f[n] \/ (f[m] = f[n] /\ m < n)
  <2>1. f[m] = v /\ v <= f[n] /\ f[n] \in Nat /\ v \in Nat
    BY <1>2, <1>4
  <2>2. CASE f[n] = v
    <3>1. n \in T
      BY <2>2
    <3>2. m <= n /\ m # n /\ m \in Nat /\ n \in Nat
      BY <3>1, <1>4 DEF Models
    <3>3. QED
      BY <2>1, <2>2, <3>2
  <2>3. CASE f[n] # v
    BY <2>1, <2>3
  <2>4. QED
    BY <2>2, <2>3
<1>6. QED
  BY <1>4, <1>5

\* It is the one that Least() chooses.
LEMMA LeastIsLeast ==
  ASSUME NEW f \in [Models -> Nat], NEW S \in SUBSET Models, S # {}
  PROVE  Least(S, f) \in S /\ \A n \in S : f[Least(S, f)] <= f[n]
<1> DEFINE b == Least(S, f)
<1>1. b \in S /\ \A n \in S \ {b} : f[b] < f[n] \/ (f[b] = f[n] /\ b < n)
  BY FirstByMeasure DEF Least
<1> HIDE DEF b
<1>2. \A n \in S : f[b] <= f[n]
  BY <1>1
<1>3. QED
  BY <1>1, <1>2 DEF b

LEMMA OneIsNat == One \in Nat
BY DEF One

LEMMA SoundestIsAModel ==
  ASSUME quality \in [Models -> 0..One]
  PROVE  Least(Models, Unsoundness) \in Models
<1>1. \A m \in Models : One - quality[m] \in Nat
  BY OneIsNat
<1>2. Unsoundness \in [Models -> Nat]
  BY <1>1 DEF Unsoundness
<1>3. 1 \in Models
  BY EvalRouterAssumption DEF Models
<1>4. QED
  BY <1>2, <1>3, LeastIsLeast

\* The policy's model meets it if one does, and none that does is cheaper.
LEMMA OptimalModel ==
  ASSUME NEW p, quality \in [Models -> 0..One]
  PROVE  /\ FindOptimalModel(p) \in Models
         /\ Viable(p) # {} =>
              /\ FindOptimalModel(p) \in Viable(p)
              /\ \A n \in Viable(p) : Cost[FindOptimalModel(p)] <= Cost[n]
<1>1. Viable(p) \in SUBSET Models
  BY DEF Viable
<1>2. CASE Viable(p) = {}
  BY <1>2, SoundestIsAModel DEF FindOptimalModel
<1>3. CASE Viable(p) # {}
  <2>1. FindOptimalModel(p) = Least(Viable(p), Cost)
    BY <1>3 DEF FindOptimalModel
  <2>2. Cost \in [Models -> Nat]
    BY EvalRouterAssumption
  <2>3. QED
    BY <1>1, <1>3, <2>1, <2>2, LeastIsLeast
<1>4. QED
  BY <1>2, <1>3

\* The mean of grades is a grade.
LEMMA MeanIsAQuality ==
  ASSUME NEW s \in [n : Nat, sum : Nat], s.n >= 3, s.sum <= One * s.n
  PROVE  Mean(s) \in 0..One
<1> DEFINE a == 2 * s.sum + s.n
           b == 2 * s.n
           q == a \div b
<1>1. a \in Nat /\ b \in Nat \ {0} /\ a < (One + 1) * b
  BY OneIsNat
<1> HIDE DEF a, b
<1>2. q \in Nat
  BY <1>1
<1>3. b * q <= a
  BY <1>1
<1> HIDE DEF q
<1>4. ASSUME q >= One + 1 PROVE FALSE
  <2>1. b * q >= b * (One + 1)
    BY <1>1, <1>2, <1>4, OneIsNat
  <2>2. QED
    BY <1>1, <1>2, <1>3, <2>1, OneIsNat
<1>5. QED
  BY <1>2, <1>4, OneIsNat DEF Mean, a, b, q

-----------------------------------------------------------------------------
LEMMA InitIInv == Init => IInv
<1> USE EvalRouterAssumption
<1> SUFFICES ASSUME Init PROVE IInv
  OBVIOUS
<1>1. /\ scores \in [Models -> [n : Nat, sum : Nat]]
      /\ quality \in [Models -> 0..One]
      /\ \A m \in Models : scores[m].n = 0 /\ scores[m].sum = 0
  BY DEF Init
<1>2. \A m \in Models : quality[m] = Truth(m)
  BY <1>1 DEF Init, Truth
<1>3. \A c \in Callers : decision[c] = None
  BY DEF Init
<1>4. DOMAIN decision = Callers
  BY DEF Init
<1>5. QED
  BY <1>1, <1>2, <1>3, <1>4, OneIsNat DEF IInv

LEMMA EvaluateIInv ==
  ASSUME IInv, NEW c \in Callers, NEW grade \in Grades, Evaluate(c, grade)
  PROVE  IInv'
<1> DEFINE m == decision[c].selected
           s == [n |-> scores[m].n + 1, sum |-> scores[m].sum + grade]
<1>1. /\ scores' = [scores EXCEPT ![m] = s]
      /\ quality' = [quality EXCEPT ![m] = Measured(m, s)]
      /\ decision' = [decision EXCEPT ![c] = None]
      /\ m \in Models /\ grade \in 0..One
  BY EvalRouterAssumption DEF Evaluate, RecordEvalOutcome, IInv
<1> HIDE DEF m
<1>2. /\ s \in [n : Nat, sum : Nat] /\ s.sum <= One * s.n
      /\ s.n = scores[m].n + 1
  <2>1. scores[m] \in [n : Nat, sum : Nat] /\ scores[m].sum <= One * scores[m].n
    BY <1>1 DEF IInv
  <2>2. QED
    BY <1>1, <2>1, OneIsNat
<1> HIDE DEF s
<1>3. s.n < 3 => quality[m] = CatalogQuality[m]
  BY <1>1, <1>2 DEF IInv, Truth
<1>4. /\ Measured(m, s) = IF s.n >= 3 THEN Mean(s) ELSE CatalogQuality[m]
      /\ Measured(m, s) \in 0..One
  <2>1. CASE s.n >= 3
    BY <1>2, <2>1, MeanIsAQuality DEF Measured, Mean
  <2>2. CASE s.n < 3
    BY <1>1, <1>2, <1>3, <2>2 DEF Measured, IInv
  <2>3. QED
    BY <1>2, <2>1, <2>2
<1>5. /\ scores' \in [Models -> [n : Nat, sum : Nat]]
      /\ quality' \in [Models -> 0..One]
  BY <1>1, <1>2, <1>4 DEF IInv
<1>6. ASSUME NEW k \in Models
      PROVE  quality'[k] = Truth(k)' /\ scores'[k].sum <= One * scores'[k].n
  <2>1. CASE k = m
    <3>1. scores'[k] = s /\ quality'[k] = Measured(m, s)
      BY <1>1, <2>1 DEF IInv
    <3>2. QED
      BY <3>1, <1>2, <1>4, <2>1 DEF Truth, Mean
  <2>2. CASE k # m
    <3>1. scores'[k] = scores[k] /\ quality'[k] = quality[k]
      BY <1>1, <2>2 DEF IInv
    <3>2. QED
      BY <3>1 DEF Truth, IInv
  <2>3. QED
    BY <2>1, <2>2
<1>7. /\ DOMAIN decision' = Callers
      /\ \A d \in Callers : decision'[d] # None => decision'[d].selected \in Models
  BY <1>1 DEF IInv
<1>8. QED
  BY <1>5, <1>6, <1>7 DEF IInv

LEMMA RouteIInv ==
  ASSUME IInv, NEW c \in Callers, NEW p \in Policies, Route(c, p)
  PROVE  IInv'
<1>1. PICK m \in Models, sh \in BOOLEAN :
        decision' = [decision EXCEPT ![c] = Decision(p, m, sh)]
  <2>1. FindOptimalModel(p) \in Models
    BY OptimalModel DEF IInv
  <2>2. QED
    BY <2>1 DEF Route, ShadowCandidates
<1>2. Decision(p, m, sh).selected = m
  BY DEF Decision
<1>3. /\ DOMAIN decision' = Callers
      /\ \A d \in Callers : decision'[d] # None => decision'[d].selected \in Models
  BY <1>1, <1>2 DEF IInv
<1>4. quality' = quality /\ scores' = scores
  BY DEF Route
<1>5. QED
  BY <1>3, <1>4 DEF IInv, Truth

LEMMA NextIInv == IInv /\ [Next]_vars => IInv'
<1> SUFFICES ASSUME IInv, [Next]_vars PROVE IInv'
  OBVIOUS
<1>1. ASSUME NEW c \in Callers, Discard(c) PROVE IInv'
  <2>1. /\ DOMAIN decision' = Callers
        /\ \A d \in Callers : decision'[d] # None => decision'[d].selected \in Models
    BY <1>1 DEF Discard, IInv
  <2>2. quality' = quality /\ scores' = scores
    BY <1>1 DEF Discard
  <2>3. QED
    BY <2>1, <2>2 DEF IInv, Truth
<1>2. CASE UNCHANGED vars
  BY <1>2 DEF vars, IInv, Truth
<1>3. QED
  BY <1>1, <1>2, RouteIInv, EvaluateIInv DEF Next

-----------------------------------------------------------------------------
\* A decision is made by route(), from the policy's model or a candidate.
LEMMA DecisionIsRouted ==
  ASSUME IInv, [Next]_vars, NEW c \in Callers, Decides(c)
  PROVE  \E p \in Policies :
           /\ decision'[c].policy = p
           /\ \/ /\ ~decision'[c].shadow
                 /\ decision'[c].selected = FindOptimalModel(p)
              \/ /\ decision'[c].shadow
                 /\ decision'[c].selected \in ShadowCandidates(p, FindOptimalModel(p))
<1>1. PICK p \in Policies : Route(c, p)
  <2>1. ~UNCHANGED vars
    BY DEF Decides, vars
  <2>2. ASSUME NEW e \in Callers, NEW grade \in Grades, Evaluate(e, grade) PROVE FALSE
    BY <2>2 DEF Evaluate, Decides, IInv
  <2>3. ASSUME NEW e \in Callers, Discard(e) PROVE FALSE
    BY <2>3 DEF Discard, Decides, IInv
  <2>4. PICK e \in Callers, p \in Policies : Route(e, p)
    BY <2>1, <2>2, <2>3 DEF Next
  <2>5. e = c
    BY <2>4 DEF Route, Decides, IInv
  <2>6. QED
    BY <2>4, <2>5
<1>2. CASE decision' = [decision EXCEPT ![c] = Decision(p, FindOptimalModel(p), FALSE)]
  <2>1. decision'[c] = Decision(p, FindOptimalModel(p), FALSE)
    BY <1>2 DEF IInv
  <2>2. decision'[c].policy = p /\ decision'[c].selected = FindOptimalModel(p)
    BY <2>1 DEF Decision
  <2>3. ~decision'[c].shadow
    BY <2>1 DEF Decision
  <2>4. QED
    BY <2>2, <2>3
<1>3. CASE \E m \in ShadowCandidates(p, FindOptimalModel(p)) :
             decision' = [decision EXCEPT ![c] = Decision(p, m, TRUE)]
  <2>1. PICK m \in ShadowCandidates(p, FindOptimalModel(p)) :
          decision'[c] = Decision(p, m, TRUE)
    BY <1>3 DEF IInv
  <2>2. /\ decision'[c].policy = p
        /\ decision'[c].selected \in ShadowCandidates(p, FindOptimalModel(p))
    BY <2>1 DEF Decision
  <2>3. decision'[c].shadow
    BY <2>1 DEF Decision
  <2>4. QED
    BY <2>2, <2>3
<1>4. QED
  BY <1>1, <1>2, <1>3 DEF Route

\* To meet a policy by the grades is to meet it by the profiles.
LEMMA ViableMeets ==
  ASSUME IInv, NEW p, NEW m \in Models
  PROVE  m \in Viable(p) <=> Meets(p, m)
BY DEF IInv, Viable, Meets

\* Grades may arrive between any two requests, for any model, and each request
\* is still decided by all of them (eval_router.py:98-131, :179-181).
THEOREM MeasuredQualityDecidesThm == Spec => MeasuredQualityDecides
<1>1. ASSUME IInv, [Next]_vars, NEW c \in Callers, Decides(c),
             \E m \in Models : Meets(decision'[c].policy, m)
      PROVE  IF decision'[c].shadow
             THEN Truth(decision'[c].selected) * 100 >= decision'[c].policy.quality * 92
             ELSE Meets(decision'[c].policy, decision'[c].selected)
  <2> DEFINE d == decision'[c]
  <2>1. PICK p \in Policies :
          /\ d.policy = p
          /\ \/ ~d.shadow /\ d.selected = FindOptimalModel(p)
             \/ d.shadow /\ d.selected \in ShadowCandidates(p, FindOptimalModel(p))
    BY <1>1, DecisionIsRouted
  <2> HIDE DEF d
  <2>2. CASE ~d.shadow /\ d.selected = FindOptimalModel(p)
    <3>1. Viable(p) # {}
      BY <1>1, <2>1, ViableMeets DEF d
    <3>2. FindOptimalModel(p) \in Viable(p) /\ FindOptimalModel(p) \in Models
      BY <1>1, <3>1, OptimalModel DEF IInv
    <3>3. Meets(p, FindOptimalModel(p))
      BY <1>1, <3>2, ViableMeets
    <3>4. QED
      BY <2>1, <2>2, <3>3 DEF d
  <2>3. CASE d.shadow /\ d.selected \in ShadowCandidates(p, FindOptimalModel(p))
    <3>1. d.selected \in Models /\ quality[d.selected] * 100 >= p.quality * 92
      BY <2>3 DEF ShadowCandidates
    <3>2. quality[d.selected] = Truth(d.selected)
      BY <1>1, <3>1 DEF IInv
    <3>3. QED
      BY <2>1, <2>3, <3>1, <3>2 DEF d
  <2>4. QED
    BY <2>1, <2>2, <2>3
<1>2. IInv /\ [Next]_vars =>
        \A c \in Callers : Decides(c) =>
          LET d == decision'[c]
          IN  (\E m \in Models : Meets(d.policy, m)) =>
                IF d.shadow
                THEN Truth(d.selected) * 100 >= d.policy.quality * 92
                ELSE Meets(d.policy, d.selected)
  BY <1>1
<1>3. QED
  BY <1>2, InitIInv, NextIInv, PTL DEF Spec, MeasuredQualityDecides

\* No two models of a catalog cost the same, so the cheapest model that meets a
\* policy is not dominated by the grades so far (frontier.py:213).
THEOREM SelectedIsOptimalThm == Spec => SelectedIsOptimal
<1>1. ASSUME IInv, [Next]_vars, NEW c \in Callers, Decides(c), ~decision'[c].shadow,
             Meets(decision'[c].policy, decision'[c].selected),
             NEW n \in Models, Dominates(n, decision'[c].selected)
      PROVE  FALSE
  <2> DEFINE m == decision'[c].selected
  <2>1. PICK p \in Policies : decision'[c].policy = p /\ m = FindOptimalModel(p)
    BY <1>1, DecisionIsRouted
  <2>2. m \in Models /\ Meets(p, m) /\ Dominates(n, m)
    BY <1>1, <2>1, OptimalModel DEF IInv
  <2> HIDE DEF m
  <2>3. Viable(p) # {} /\ m \in Viable(p)
    BY <1>1, <2>2, ViableMeets
  <2>4. /\ Truth(n) = quality[n] /\ Truth(m) = quality[m]
        /\ quality[n] \in Nat /\ quality[m] \in Nat
        /\ Cost[n] \in Nat /\ Cost[m] \in Nat /\ Latency[n] \in Nat /\ Latency[m] \in Nat
        /\ p.quality \in Nat /\ p.latency \in Nat \cup {None} /\ p.cost \in Nat \cup {None}
    <3>1. /\ Truth(n) = quality[n] /\ Truth(m) = quality[m]
          /\ quality[n] \in Nat /\ quality[m] \in Nat
      BY <1>1, <2>2 DEF IInv
    <3>2. /\ Cost[n] \in Nat /\ Cost[m] \in Nat /\ Latency[n] \in Nat /\ Latency[m] \in Nat
      BY <2>2, EvalRouterAssumption
    <3>3. p \in [quality : Nat, latency : Nat \cup {None},
                 cost : Nat \cup {None}, shadow : BOOLEAN]
      BY EvalRouterAssumption
    <3>4. QED
      BY <3>1, <3>2, <3>3
  <2>5. Meets(p, n)
    BY <2>2, <2>4 DEF Meets, Within, Dominates
  <2>6. Cost[m] <= Cost[n]
    <3>1. n \in Viable(p)
      BY <1>1, <2>5, ViableMeets
    <3>2. quality \in [Models -> 0..One]
      BY <1>1 DEF IInv
    <3>3. \A k \in Viable(p) : Cost[FindOptimalModel(p)] <= Cost[k]
      BY <2>3, <3>2, OptimalModel
    <3>4. QED
      BY <2>1, <3>1, <3>3 DEF m
  <2>7. Cost[n] = Cost[m]
    BY <2>2, <2>4, <2>6 DEF Dominates
  <2>8. n = m
    BY <2>2, <2>7, CatalogAssumption
  <2>9. QED
    BY <2>2, <2>4, <2>8 DEF Dominates
<1>2. IInv /\ [Next]_vars =>
        \A c \in Callers : Decides(c) =>
          LET d == decision'[c]
          IN  ~d.shadow /\ Meets(d.policy, d.selected) =>
                \A n \in Models : ~Dominates(n, d.selected)
  BY <1>1
<1>3. QED
  BY <1>2, InitIInv, NextIInv, PTL DEF Spec, SelectedIsOptimal
================================================================================
