--------------------------- MODULE RoleLoopProofs ---------------------------
(***************************************************************************)
(* The safety properties of RoleLoop, for any tools, limits and length of  *)
(* the tool lists.                                                         *)
(*                                                                         *)
(* RepliesMatchCalls holds of the transcript only between the tool calls,  *)
(* so the invariant states it of the transcript as it will be when the     *)
(* pending calls have been answered: RunTool does not change that one.     *)
(***************************************************************************)
EXTENDS RoleLoop, TLAPS

Replies(calls) == [k \in 1..Len(calls) |-> Reply(calls[k])]

Whole(tr, calls) == tr \o Replies(calls)

\* The transcript once the pending calls are answered.
Foreseen == Whole(transcript, pending)

Complete(s) ==
    \A i \in 1..Len(s) : s[i].role = "assistant" =>
        /\ \A k \in 1..Len(s[i].calls) :
              i + k <= Len(s) /\ s[i + k] = Reply(s[i].calls[k])
        /\ i + Len(s[i].calls) < Len(s) => s[i + Len(s[i].calls) + 1].role # "tool"

\* Where the loop stands and what its counters then are.
Control ==
    /\ at = "tools" <=> pending # <<>>
    /\ at = "post" => turn >= 1 /\ attempt >= 1 /\ post >= 1
    /\ outcome # "none" => at = "done"

\* The requests of the finished turns, of the finished attempts of this one and
\* of this attempt.
Spent ==
    IF at = "post"
    THEN requests <= (turn - 1) * (MaxResponseRetries * MaxRetries)
                       + (attempt - 1) * MaxRetries + (post - 1)
    ELSE requests <= turn * (MaxResponseRetries * MaxRetries)

IInv == TypeOK /\ Control /\ Spent /\ Complete(Foreseen)

-----------------------------------------------------------------------------
(* Sequences of messages *)

\* A list of calls is a sequence of tools.
LEMMA CallListType ==
    ASSUME NEW c \in CallLists
    PROVE  c \in Seq(Tools) /\ Len(c) \in Nat \ {0}
  <1>1. PICK n \in 1..MaxCalls : c \in [1..n -> Tools]
    BY DEF CallLists
  <1> QED
    BY <1>1, RoleAssumption DEF RoleAssumption

\* Replies of a list of calls are as many messages, tool replies in order.
LEMMA RepliesType ==
    ASSUME NEW c \in Seq(Tools)
    PROVE  /\ Replies(c) \in Seq(Messages)
           /\ Len(Replies(c)) = Len(c)
           /\ \A k \in 1..Len(c) : Replies(c)[k] = Reply(c[k])
  <1>1. \A k \in 1..Len(c) : Reply(c[k]) \in Messages
    BY DEF Messages
  <1> QED
    BY <1>1 DEF Replies

\* A complete transcript stays complete when a message of the model is added
\* with the replies to its calls, or a nudge.
LEMMA CompleteExtends ==
    ASSUME NEW s \in Seq(Messages), Complete(s),
           NEW c \in Seq(Tools),
           NEW u \in Seq(Messages),
           Len(u) = Len(s) + 1 + Len(c),
           \A i \in 1..Len(s) : u[i] = s[i],
           u[Len(s) + 1] = Says(c) \/ (u[Len(s) + 1] = Nudge /\ c = <<>>),
           \A k \in 1..Len(c) : u[Len(s) + 1 + k] = Reply(c[k]),
           \A i \in 1..Len(s) : Len(s[i].calls) \in Nat
    PROVE  Complete(u)
  <1>0. Len(s) \in Nat /\ Len(c) \in Nat /\ Len(u) \in Nat
    OBVIOUS
  <1> SUFFICES ASSUME NEW i \in 1..Len(u), u[i].role = "assistant"
               PROVE  /\ \A k \in 1..Len(u[i].calls) :
                            i + k <= Len(u) /\ u[i + k] = Reply(u[i].calls[k])
                      /\ i + Len(u[i].calls) < Len(u) =>
                            u[i + Len(u[i].calls) + 1].role # "tool"
    BY DEF Complete
  <1>1. CASE i <= Len(s)
    <2> DEFINE m == Len(s[i].calls)
    <2>0. i \in 1..Len(s) /\ m \in Nat /\ u[i] = s[i]
      BY <1>0, <1>1
    <2>1. /\ \A k \in 1..m : i + k <= Len(s) /\ s[i + k] = Reply(s[i].calls[k])
          /\ i + m < Len(s) => s[i + m + 1].role # "tool"
      BY <2>0 DEF Complete
    <2> HIDE DEF m
    <2>2. i + m <= Len(s)
      <3>1. CASE m = 0
        BY <1>1, <3>1
      <3>2. CASE m # 0
        <4>1. m \in 1..m
          BY <2>0, <3>2
        <4> QED
          BY <2>1, <4>1
      <3> QED
        BY <3>1, <3>2
    <2>3. i + m = Len(s) => u[i + m + 1].role # "tool"
      BY DEF Says, Nudge
    <2>4. ASSUME NEW k \in 1..m
          PROVE  i + k <= Len(u) /\ u[i + k] = Reply(s[i].calls[k])
      <3>0. i + k <= Len(s)
        BY <2>1
      <3>1. i + k \in 1..Len(s)
        BY <1>0, <1>1, <2>0, <3>0
      <3>2. u[i + k] = s[i + k]
        BY <3>1
      <3> QED
        BY <1>0, <2>1, <3>1, <3>2
    <2>5. i + m < Len(s) => u[i + m + 1].role # "tool"
      <3>1. SUFFICES ASSUME i + m < Len(s) PROVE u[i + m + 1].role # "tool"
        OBVIOUS
      <3>2. i + m + 1 \in 1..Len(s)
        BY <1>0, <2>0, <3>1
      <3> QED
        BY <2>1, <3>1, <3>2
    <2>6. i + m < Len(u) => u[i + m + 1].role # "tool"
      BY <1>0, <2>0, <2>2, <2>3, <2>5
    <2>7. u[i].calls = s[i].calls
      BY <2>0
    <2> QED
      BY <2>4, <2>6, <2>7 DEF m
  <1>2. CASE i = Len(s) + 1
    <2>1. u[i].calls = c
      BY <1>2 DEF Says, Nudge
    <2>2. \A k \in 1..Len(c) : i + k <= Len(u) /\ u[i + k] = Reply(c[k])
      BY <1>0, <1>2
    <2>3. ~(i + Len(c) < Len(u))
      BY <1>0, <1>2
    <2> QED
      BY <2>1, <2>2, <2>3
  <1>3. CASE i > Len(s) + 1
    <2>1. PICK k \in 1..Len(c) : i = Len(s) + 1 + k
      <3>1. i - Len(s) - 1 \in 1..Len(c) /\ i = Len(s) + 1 + (i - Len(s) - 1)
        BY <1>0, <1>3
      <3> QED
        BY <3>1
    <2>2. u[i] = Reply(c[k])
      BY <2>1
    <2> QED
      BY <2>2 DEF Reply
  <1> QED
    BY <1>0, <1>1, <1>2, <1>3


-----------------------------------------------------------------------------
(* The transcript *)

\* Every message has a list of calls.
LEMMA CallsOfMessages ==
    ASSUME NEW m \in Messages
    PROVE  m.calls \in Seq(Tools) /\ Len(m.calls) \in Nat
  <1>1. \A c \in CallLists : c \in Seq(Tools)
    BY CallListType
  <1>2. CASE m = Nudge
    BY <1>2 DEF Nudge
  <1>3. CASE \E c \in CallLists \cup {<<>>} : m = Says(c)
    <2>1. PICK c \in CallLists \cup {<<>>} : m = Says(c)
      BY <1>3
    <2>2. m.calls = c
      BY <2>1 DEF Says
    <2>3. c \in Seq(Tools)
      <3>1. <<>> \in Seq(Tools)
        OBVIOUS
      <3> QED
        BY <1>1, <3>1
    <2> QED
      BY <2>2, <2>3
  <1>4. CASE \E t \in Tools : m = Reply(t)
    <2>1. PICK t \in Tools : m = Reply(t)
      BY <1>4
    <2>2. m.calls = <<t>>
      BY <2>1 DEF Reply
    <2> QED
      BY <2>2
  <1>5. \/ m = Nudge
        \/ \E c \in CallLists \cup {<<>>} : m = Says(c)
        \/ \E t \in Tools : m = Reply(t)
    BY DEF Messages
  <1> QED
    BY <1>2, <1>3, <1>4, <1>5

\* A transcript and the replies to come are a sequence of messages, of which
\* each part is in its place.
LEMMA WholeType ==
    ASSUME NEW tr \in Seq(Messages), NEW p \in Seq(Tools)
    PROVE  /\ Whole(tr, p) \in Seq(Messages)
           /\ Len(Whole(tr, p)) = Len(tr) + Len(p)
           /\ \A i \in 1..Len(tr) : Whole(tr, p)[i] = tr[i]
           /\ \A k \in 1..Len(p) : Whole(tr, p)[Len(tr) + k] = Reply(p[k])
           /\ \A i \in 1..Len(Whole(tr, p)) : Len(Whole(tr, p)[i].calls) \in Nat
  <1> DEFINE r == Replies(p)
  <1>1. /\ r \in Seq(Messages)
        /\ Len(r) = Len(p)
        /\ \A k \in 1..Len(p) : r[k] = Reply(p[k])
    BY RepliesType
  <1> HIDE DEF r
  <1>2. /\ tr \o r \in Seq(Messages)
        /\ Len(tr \o r) = Len(tr) + Len(r)
        /\ \A i \in 1..Len(tr) : (tr \o r)[i] = tr[i]
        /\ \A k \in 1..Len(r) : (tr \o r)[Len(tr) + k] = r[k]
    BY <1>1
  <1>3. Whole(tr, p) = tr \o r
    BY DEF Whole, r
  <1>4. \A i \in 1..Len(Whole(tr, p)) : Len(Whole(tr, p)[i].calls) \in Nat
    <2>1. \A i \in 1..Len(Whole(tr, p)) : Whole(tr, p)[i] \in Messages
      BY <1>2, <1>3
    <2> QED
      BY <2>1, CallsOfMessages
  <1> QED
    BY <1>1, <1>2, <1>3, <1>4

\* With no call pending, what is foreseen is what is there.
LEMMA WholeOfNone ==
    ASSUME NEW tr \in Seq(Messages)
    PROVE  Whole(tr, <<>>) = tr
  <1>1. Replies(<<>>) = <<>>
    BY DEF Replies
  <1> QED
    BY <1>1 DEF Whole

\* An executed call moves its reply from the foreseen part to the transcript.
LEMMA ReplyMoves ==
    ASSUME NEW tr \in Seq(Messages), NEW p \in Seq(Tools), p # <<>>
    PROVE  /\ Append(tr, Reply(Head(p))) \in Seq(Messages)
           /\ Whole(Append(tr, Reply(Head(p))), Tail(p)) = Whole(tr, p)
  <1> DEFINE tr2 == Append(tr, Reply(Head(p)))
             p2 == Tail(p)
  <1>1. Len(p) \in Nat \ {0} /\ Len(tr) \in Nat /\ Head(p) \in Tools /\ Head(p) = p[1]
    OBVIOUS
  <1>2. Reply(Head(p)) \in Messages
    BY <1>1 DEF Messages
  <1>3. /\ tr2 \in Seq(Messages) /\ Len(tr2) = Len(tr) + 1
        /\ \A i \in 1..Len(tr) : tr2[i] = tr[i]
        /\ tr2[Len(tr) + 1] = Reply(p[1])
    BY <1>1, <1>2
  <1>4. /\ p2 \in Seq(Tools) /\ Len(p2) = Len(p) - 1
        /\ \A k \in 1..Len(p2) : p2[k] = p[k + 1]
    BY <1>1
  <1> HIDE DEF tr2, p2
  <1>5. /\ Whole(tr, p) \in Seq(Messages)
        /\ Len(Whole(tr, p)) = Len(tr) + Len(p)
        /\ \A i \in 1..Len(tr) : Whole(tr, p)[i] = tr[i]
        /\ \A k \in 1..Len(p) : Whole(tr, p)[Len(tr) + k] = Reply(p[k])
    BY WholeType
  <1>6. /\ Whole(tr2, p2) \in Seq(Messages)
        /\ Len(Whole(tr2, p2)) = Len(tr2) + Len(p2)
        /\ \A i \in 1..Len(tr2) : Whole(tr2, p2)[i] = tr2[i]
        /\ \A k \in 1..Len(p2) : Whole(tr2, p2)[Len(tr2) + k] = Reply(p2[k])
    BY <1>3, <1>4, WholeType
  <1>7. ASSUME NEW i \in 1..Len(Whole(tr, p))
        PROVE  Whole(tr2, p2)[i] = Whole(tr, p)[i]
    <2>1. CASE i <= Len(tr)
      <3>1. i \in 1..Len(tr) /\ i \in 1..Len(tr2)
        BY <1>1, <1>3, <1>5, <2>1
      <3> QED
        BY <1>3, <1>5, <1>6, <3>1
    <2>2. CASE i = Len(tr) + 1
      <3>1. 1 \in 1..Len(p) /\ i \in 1..Len(tr2)
        BY <1>1, <1>3, <2>2
      <3> QED
        BY <1>3, <1>5, <1>6, <2>2, <3>1
    <2>3. CASE i > Len(tr) + 1
      <3> DEFINE k == i - Len(tr) - 1
      <3>1. k \in 1..Len(p2) /\ i = Len(tr2) + k /\ i = Len(tr) + (k + 1)
              /\ k + 1 \in 1..Len(p)
        BY <1>1, <1>3, <1>4, <1>5, <2>3
      <3> HIDE DEF k
      <3>2. Whole(tr2, p2)[i] = Reply(p2[k])
        BY <1>6, <3>1
      <3>3. Whole(tr, p)[i] = Reply(p[k + 1])
        BY <1>5, <3>1
      <3> QED
        BY <1>4, <3>1, <3>2, <3>3
    <2> QED
      BY <1>1, <1>5, <2>1, <2>2, <2>3
  <1>8. Len(Whole(tr2, p2)) = Len(Whole(tr, p))
    BY <1>1, <1>3, <1>4, <1>5, <1>6
  <1>9. Whole(tr2, p2) = Whole(tr, p)
    BY <1>5, <1>6, <1>7, <1>8
  <1> QED
    BY <1>3, <1>9 DEF tr2, p2

-----------------------------------------------------------------------------
(* The counters *)

\* One attempt more costs MaxRetries requests, one turn more all attempts.
LEMMA Multiples ==
    ASSUME NEW t \in Nat \ {0}, NEW a \in 1..MaxResponseRetries
    PROVE  /\ MaxResponseRetries * MaxRetries \in Nat
           /\ a * MaxRetries \in Nat /\ (a - 1) * MaxRetries \in Nat
           /\ a * MaxRetries = (a - 1) * MaxRetries + MaxRetries
           /\ a * MaxRetries <= MaxResponseRetries * MaxRetries
           /\ t * (MaxResponseRetries * MaxRetries)
                = (t - 1) * (MaxResponseRetries * MaxRetries) + MaxResponseRetries * MaxRetries
           /\ (t - 1) * (MaxResponseRetries * MaxRetries) \in Nat
  <1>1. MaxResponseRetries \in Nat \ {0} /\ MaxRetries \in Nat \ {0}
    BY RoleAssumption DEF RoleAssumption
  <1>2. \A m, n, k \in Nat : m <= n => m * k <= n * k
    OBVIOUS
  <1>3. \A n, k \in Nat : n # 0 => n * k = (n - 1) * k + k
    OBVIOUS
  <1>4. \A n, k \in Nat : n * k \in Nat
    OBVIOUS
  <1> DEFINE q == MaxResponseRetries * MaxRetries
  <1>5. q \in Nat
    BY <1>1, <1>4
  <1> HIDE DEF q
  <1>6. t * q = (t - 1) * q + q /\ (t - 1) * q \in Nat
    BY <1>3, <1>4, <1>5
  <1>7. a * MaxRetries <= MaxResponseRetries * MaxRetries
    BY <1>1, <1>2
  <1>8. /\ a * MaxRetries = (a - 1) * MaxRetries + MaxRetries
        /\ a * MaxRetries \in Nat /\ (a - 1) * MaxRetries \in Nat
    BY <1>1, <1>3, <1>4
  <1> QED
    BY <1>5, <1>6, <1>7, <1>8 DEF q

\* The request that is under way is the last one of what it may have cost.
LEMMA LastRequest ==
    ASSUME TypeOK, Control, Spent, at = "post"
    PROVE  requests + 1 <= turn * (MaxResponseRetries * MaxRetries)
  <1>1. /\ turn \in Nat \ {0} /\ attempt \in 1..MaxResponseRetries
        /\ post \in 1..MaxRetries /\ requests \in Nat /\ MaxRetries \in Nat
    BY RoleAssumption DEF TypeOK, Control, RoleAssumption
  <1>2. requests <= (turn - 1) * (MaxResponseRetries * MaxRetries)
                      + (attempt - 1) * MaxRetries + (post - 1)
    BY DEF Spent
  <1> DEFINE q == MaxResponseRetries * MaxRetries
             r == (turn - 1) * q
             x == (attempt - 1) * MaxRetries
             y == attempt * MaxRetries
             z == turn * q
  <1>3. /\ q \in Nat /\ y \in Nat /\ x \in Nat /\ y = x + MaxRetries /\ y <= q
        /\ z = r + q /\ r \in Nat
    BY <1>1, Multiples
  <1>4. requests <= r + x + (post - 1)
    BY <1>2
  <1> HIDE DEF q, r, x, y, z
  <1>5. requests + 1 <= z
    BY <1>1, <1>3, <1>4
  <1> QED
    BY <1>5 DEF z, q

\* The invariant of the counters survives each step.
LEMMA StepSpent ==
    ASSUME TypeOK, Control, Spent, [Next]_vars
    PROVE  Spent'
  <1> DEFINE q == MaxResponseRetries * MaxRetries
  <1>0. /\ MaxResponseRetries \in Nat \ {0} /\ MaxRetries \in Nat \ {0} /\ MaxTurns \in Nat
        /\ turn \in Nat /\ requests \in Nat /\ q \in Nat
    BY RoleAssumption DEF TypeOK, RoleAssumption
  <1>1. CASE BeginTurn
    <2>1. /\ at = "turn" /\ at' = "post" /\ turn' = turn + 1
          /\ attempt' = 1 /\ post' = 1 /\ requests' = requests
      BY <1>1 DEF BeginTurn
    <2>2. requests <= turn * q
      BY <2>1 DEF Spent
    <2>3. (turn' - 1) * q + (attempt' - 1) * MaxRetries + (post' - 1) = turn * q
      <3>1. turn' - 1 = turn /\ attempt' - 1 = 0 /\ post' - 1 = 0
        BY <1>0, <2>1
      <3>2. turn * q \in Nat /\ 0 * MaxRetries = 0
        BY <1>0
      <3> HIDE DEF q
      <3> QED
        BY <3>1, <3>2
    <2> QED
      BY <2>1, <2>2, <2>3 DEF Spent
  <1>2. CASE ExceedMaxTurns \/ RunTool \/ UNCHANGED vars
    BY <1>2 DEF ExceedMaxTurns, RunTool, vars, Spent, End
  <1>3. CASE PostFails
    <2>1. /\ at = "post" /\ requests' = requests + 1 /\ turn' = turn
      BY <1>3 DEF PostFails
    <2>2. /\ turn \in Nat \ {0} /\ attempt \in 1..MaxResponseRetries /\ post \in 1..MaxRetries
      BY <2>1 DEF TypeOK, Control
    <2>3. requests + 1 <= turn * q
      BY <2>1, LastRequest
    <2> DEFINE r == (turn - 1) * q
               x == (attempt - 1) * MaxRetries
    <2>4. requests <= r + x + (post - 1)
      BY <2>1 DEF Spent
    <2>5. r \in Nat /\ x \in Nat
      BY <2>2, Multiples
    <2>6. CASE post < MaxRetries
      <3>1. at' = "post" /\ post' = post + 1 /\ attempt' = attempt
        BY <1>3, <2>1, <2>6 DEF PostFails
      <3>2. requests' <= r + x + (post' - 1)
        <4> HIDE DEF r, x
        <4> QED
          BY <1>0, <2>1, <2>2, <2>4, <2>5, <3>1
      <3> QED
        BY <2>1, <3>1, <3>2 DEF Spent
    <2>7. CASE post = MaxRetries /\ attempt < MaxResponseRetries
      <3>1. at' = "post" /\ post' = 1 /\ attempt' = attempt + 1
        BY <1>0, <1>3, <2>1, <2>7 DEF PostFails
      <3>2. attempt * MaxRetries = x + MaxRetries
        BY <2>2, Multiples
      <3>3. requests' <= r + attempt * MaxRetries + 0
        <4> DEFINE y == attempt * MaxRetries
        <4>1. y = x + MaxRetries
          BY <3>2
        <4> HIDE DEF r, x, y
        <4>2. requests' <= r + y + 0
          BY <1>0, <2>1, <2>2, <2>4, <2>5, <2>7, <4>1
        <4> QED
          BY <4>2 DEF y
      <3>4. attempt' - 1 = attempt /\ post' - 1 = 0
        BY <2>2, <3>1
      <3> QED
        BY <2>1, <3>1, <3>3, <3>4 DEF Spent
    <2>8. CASE post = MaxRetries /\ attempt = MaxResponseRetries
      <3>1. at' = "done"
        BY <1>0, <1>3, <2>1, <2>8 DEF PostFails, End
      <3> QED
        BY <2>1, <2>3, <3>1 DEF Spent
    <2> QED
      BY <1>0, <2>2, <2>6, <2>7, <2>8
  <1>4. CASE PostMisshapen \/ CallsTools \/ Answers \/ Rambles
    <2>1. at = "post" /\ requests' = requests + 1 /\ turn' = turn /\ at' # "post"
      BY <1>4 DEF PostMisshapen, CallsTools, Answers, Rambles, End
    <2>2. requests + 1 <= turn * q
      BY <2>1, LastRequest
    <2> QED
      BY <2>1, <2>2 DEF Spent
  <1> QED
    BY <1>1, <1>2, <1>3, <1>4 DEF Next

-----------------------------------------------------------------------------
(* The invariant *)

\* Each step keeps the shape of the state.
LEMMA StepType ==
    ASSUME TypeOK, Control, [Next]_vars
    PROVE  TypeOK'
  <1>0. /\ MaxResponseRetries \in Nat \ {0} /\ MaxRetries \in Nat \ {0}
        /\ MaxTurns \in Nat \ {0}
    BY RoleAssumption DEF RoleAssumption
  <1>1. CASE BeginTurn
    BY <1>0, <1>1 DEF BeginTurn, TypeOK
  <1>2. CASE ExceedMaxTurns
    BY <1>2 DEF ExceedMaxTurns, TypeOK, End
  <1>3. CASE PostFails
    BY <1>0, <1>3 DEF PostFails, TypeOK, End
  <1>4. CASE PostMisshapen
    BY <1>4 DEF PostMisshapen, TypeOK, End
  <1>5. CASE CallsTools
    <2>1. PICK c \in CallLists : transcript' = Append(transcript, Says(c)) /\ pending' = c
      BY <1>5 DEF CallsTools
    <2>2. c \in Seq(Tools)
      BY CallListType
    <2>3. Says(c) \in Messages
      BY DEF Messages
    <2>4. transcript' \in Seq(Messages) /\ pending' \in Seq(Tools)
      BY <2>1, <2>2, <2>3 DEF TypeOK
    <2> QED
      BY <1>5, <2>4 DEF CallsTools, TypeOK
  <1>6. CASE Answers
    <2>1. Says(<<>>) \in Messages
      BY DEF Messages
    <2> QED
      BY <1>6, <2>1 DEF Answers, TypeOK, End
  <1>7. CASE Rambles
    <2>1. Says(<<>>) \in Messages /\ Nudge \in Messages
      BY DEF Messages
    <2>2. transcript \o <<Says(<<>>), Nudge>> \in Seq(Messages)
      BY <2>1 DEF TypeOK
    <2> QED
      BY <1>7, <2>2 DEF Rambles, TypeOK
  <1>8. CASE RunTool
    <2>1. pending # <<>> /\ transcript \in Seq(Messages) /\ pending \in Seq(Tools)
      BY <1>8 DEF RunTool, TypeOK, Control
    <2>2. transcript' \in Seq(Messages) /\ pending' \in Seq(Tools)
      BY <1>8, <2>1, ReplyMoves DEF RunTool
    <2> QED
      BY <1>8, <2>2 DEF RunTool, TypeOK
  <1>9. CASE UNCHANGED vars
    BY <1>9 DEF vars, TypeOK
  <1> QED
    BY <1>1, <1>2, <1>3, <1>4, <1>5, <1>6, <1>7, <1>8, <1>9 DEF Next

\* Each step keeps calls pending exactly while they are executed.
LEMMA StepControl ==
    ASSUME TypeOK, Control, [Next]_vars
    PROVE  Control'
  <1>0. MaxResponseRetries \in Nat \ {0} /\ MaxRetries \in Nat \ {0}
    BY RoleAssumption DEF RoleAssumption
  <1>1. CASE BeginTurn
    BY <1>1 DEF BeginTurn, TypeOK, Control
  <1>2. CASE ExceedMaxTurns \/ PostMisshapen \/ Answers \/ Rambles \/ UNCHANGED vars
    BY <1>2 DEF ExceedMaxTurns, PostMisshapen, Answers, Rambles, End, Control, vars
  <1>3. CASE PostFails
    BY <1>0, <1>3 DEF PostFails, TypeOK, Control, End
  <1>4. CASE CallsTools
    <2>1. PICK c \in CallLists : pending' = c
      BY <1>4 DEF CallsTools
    <2>2. c # <<>>
      BY CallListType
    <2> QED
      BY <1>4, <2>1, <2>2 DEF CallsTools, Control
  <1>5. CASE RunTool
    <2>1. pending # <<>> /\ pending \in Seq(Tools) /\ outcome = "none"
      BY <1>5 DEF RunTool, TypeOK, Control
    <2>2. Tail(pending) = <<>> <=> Len(pending) = 1
      <3>1. Len(Tail(pending)) = Len(pending) - 1 /\ Tail(pending) \in Seq(Tools)
              /\ Len(pending) \in Nat \ {0}
        BY <2>1
      <3>2. \A s \in Seq(Tools) : s = <<>> <=> Len(s) = 0
        OBVIOUS
      <3>3. Tail(pending) = <<>> <=> Len(Tail(pending)) = 0
        BY <3>1, <3>2, Zenon
      <3>4. Len(pending) - 1 = 0 <=> Len(pending) = 1
        BY <3>1
      <3> QED
        BY <3>1, <3>3, <3>4, Zenon
    <2> QED
      BY <1>5, <2>1, <2>2 DEF RunTool, Control
  <1> QED
    BY <1>1, <1>2, <1>3, <1>4, <1>5 DEF Next

\* What the model adds to the transcript leaves it complete.
LEMMA MessageCompletes ==
    ASSUME NEW tr \in Seq(Messages), Complete(tr),
           NEW c \in Seq(Tools), NEW m \in Messages,
           m = Says(c) \/ (m = Nudge /\ c = <<>>)
    PROVE  /\ Append(tr, m) \in Seq(Messages)
           /\ Complete(Whole(Append(tr, m), c))
  <1> DEFINE u == Whole(Append(tr, m), c)
  <1>1. /\ Append(tr, m) \in Seq(Messages) /\ Len(Append(tr, m)) = Len(tr) + 1
        /\ \A i \in 1..Len(tr) : Append(tr, m)[i] = tr[i]
        /\ Append(tr, m)[Len(tr) + 1] = m
    OBVIOUS
  <1>2. /\ u \in Seq(Messages)
        /\ Len(u) = Len(Append(tr, m)) + Len(c)
        /\ \A i \in 1..Len(Append(tr, m)) : u[i] = Append(tr, m)[i]
        /\ \A k \in 1..Len(c) : u[Len(Append(tr, m)) + k] = Reply(c[k])
    BY <1>1, WholeType
  <1>3. \A i \in 1..Len(tr) : Len(tr[i].calls) \in Nat
    BY CallsOfMessages
  <1> HIDE DEF u
  <1>4. /\ Len(u) = Len(tr) + 1 + Len(c)
        /\ \A i \in 1..Len(tr) : u[i] = tr[i]
        /\ u[Len(tr) + 1] = m
        /\ \A k \in 1..Len(c) : u[Len(tr) + 1 + k] = Reply(c[k])
    BY <1>1, <1>2
  <1>5. Complete(u)
    BY <1>2, <1>3, <1>4, CompleteExtends
  <1> QED
    BY <1>1, <1>5 DEF u

\* Each step keeps the foreseen transcript complete.
LEMMA StepComplete ==
    ASSUME TypeOK, Control, Complete(Foreseen), [Next]_vars
    PROVE  Complete(Foreseen)'
  <1>0. transcript \in Seq(Messages) /\ pending \in Seq(Tools)
    BY DEF TypeOK
  <1>1. ASSUME pending = <<>>
        PROVE  Complete(transcript)
    BY <1>0, <1>1, WholeOfNone DEF Foreseen
  <1>2. CASE \/ BeginTurn \/ ExceedMaxTurns \/ PostFails \/ PostMisshapen \/ UNCHANGED vars
    <2>1. transcript' = transcript /\ pending' = pending
      BY <1>2 DEF BeginTurn, ExceedMaxTurns, PostFails, PostMisshapen, vars
    <2> QED
      BY <2>1 DEF Foreseen
  <1>3. CASE CallsTools
    <2>1. PICK c \in CallLists : transcript' = Append(transcript, Says(c)) /\ pending' = c
      BY <1>3 DEF CallsTools
    <2>2. c \in Seq(Tools) /\ Says(c) \in Messages
      BY CallListType DEF Messages
    <2>3. Complete(transcript)
      BY <1>1, <1>3 DEF CallsTools, Control
    <2>4. Complete(Whole(Append(transcript, Says(c)), c))
      BY <1>0, <2>2, <2>3, MessageCompletes
    <2> QED
      BY <2>1, <2>4 DEF Foreseen
  <1>4. CASE Answers
    <2>1. transcript' = Append(transcript, Says(<<>>)) /\ pending' = <<>> /\ Complete(transcript)
      BY <1>1, <1>4 DEF Answers, Control
    <2>2. <<>> \in Seq(Tools) /\ Says(<<>>) \in Messages
      BY DEF Messages
    <2>3. Complete(Whole(Append(transcript, Says(<<>>)), <<>>))
      BY <1>0, <2>1, <2>2, MessageCompletes
    <2> QED
      BY <2>1, <2>3 DEF Foreseen
  <1>5. CASE Rambles
    <2> DEFINE s == Append(transcript, Says(<<>>))
    <2>1. /\ transcript' = transcript \o <<Says(<<>>), Nudge>>
          /\ pending' = <<>> /\ Complete(transcript)
      BY <1>1, <1>5 DEF Rambles, Control
    <2>2. <<>> \in Seq(Tools) /\ Says(<<>>) \in Messages /\ Nudge \in Messages
      BY DEF Messages
    <2>3. s \in Seq(Messages) /\ Complete(Whole(s, <<>>))
      BY <1>0, <2>1, <2>2, MessageCompletes
    <2>4. transcript' = Append(s, Nudge)
      BY <1>0, <2>1, <2>2
    <2> HIDE DEF s
    <2>5. Complete(s)
      BY <2>3, WholeOfNone
    <2>6. Complete(Whole(Append(s, Nudge), <<>>))
      BY <2>2, <2>3, <2>5, MessageCompletes
    <2> QED
      BY <2>1, <2>4, <2>6 DEF Foreseen
  <1>6. CASE RunTool
    <2>1. /\ pending # <<>> /\ transcript' = Append(transcript, Reply(Head(pending)))
          /\ pending' = Tail(pending)
      BY <1>6 DEF RunTool, Control
    <2>2. Foreseen' = Foreseen
      BY <1>0, <2>1, ReplyMoves DEF Foreseen
    <2> QED
      BY <2>2
  <1> QED
    BY <1>2, <1>3, <1>4, <1>5, <1>6 DEF Next

\* The invariant holds of every state.
THEOREM RoleLoopInvariant == Spec => []IInv
  <1>1. Init => IInv
    <2> SUFFICES ASSUME Init PROVE IInv
      OBVIOUS
    <2>1. TypeOK /\ Control
      BY RoleAssumption DEF Init, TypeOK, Control, RoleAssumption
    <2>2. Spent
      <3>1. MaxResponseRetries \in Nat /\ MaxRetries \in Nat
        BY RoleAssumption DEF RoleAssumption
      <3>2. \A n, k \in Nat : 0 <= 0 * (n * k)
        OBVIOUS
      <3> QED
        BY <3>1, <3>2 DEF Init, Spent
    <2>3. Foreseen = <<>>
      BY <2>1, WholeOfNone DEF Init, Foreseen, TypeOK
    <2>4. Complete(<<>>)
      BY DEF Complete
    <2> QED
      BY <2>1, <2>2, <2>3, <2>4 DEF IInv
  <1>2. IInv /\ [Next]_vars => IInv'
    BY StepType, StepControl, StepSpent, StepComplete DEF IInv
  <1> QED
    BY <1>1, <1>2, PTL DEF Spec

\* The type invariant of the run role_loop.
THEOREM RoleLoopTypeCorrect == Spec => []TypeOK
  <1>1. IInv => TypeOK
    BY DEF IInv
  <1> QED
    BY <1>1, RoleLoopInvariant, PTL

\* Whatever a model calls, refused, unknown or failing, it is asked again and
\* its answer is taken only over a transcript that answers every call in order.
THEOREM EveryCallIsAnswered == Spec => []RepliesMatchCalls
  <1>1. IInv => RepliesMatchCalls
    <2> SUFFICES ASSUME IInv, at = "post" \/ outcome = "answer"
                 PROVE  \A i \in DOMAIN transcript :
                          LET calls == transcript[i].calls IN
                          transcript[i].role = "assistant" =>
                            /\ \A k \in DOMAIN calls :
                                  /\ i + k \in DOMAIN transcript
                                  /\ transcript[i + k] = Reply(calls[k])
                            /\ i + Len(calls) < Len(transcript) =>
                                  transcript[i + Len(calls) + 1].role # "tool"
      BY DEF RepliesMatchCalls
    <2>1. transcript \in Seq(Messages) /\ pending = <<>>
      BY DEF IInv, TypeOK, Control
    <2>2. Complete(transcript)
      BY <2>1, WholeOfNone DEF IInv, Foreseen
    <2> TAKE i \in DOMAIN transcript
    <2>3. i \in 1..Len(transcript) /\ i \in Nat
      BY <2>1
    <2>4. transcript[i].calls \in Seq(Tools)
      BY <2>1, <2>3, CallsOfMessages
    <2> DEFINE calls == transcript[i].calls
    <2>5. DOMAIN calls = 1..Len(calls) /\ DOMAIN transcript = 1..Len(transcript)
      BY <2>1, <2>4
    <2>6. transcript[i].role = "assistant" =>
             /\ \A k \in 1..Len(calls) :
                   i + k <= Len(transcript) /\ transcript[i + k] = Reply(calls[k])
             /\ i + Len(calls) < Len(transcript) =>
                   transcript[i + Len(calls) + 1].role # "tool"
      BY <2>2, <2>3 DEF Complete
    <2> HIDE DEF calls
    <2>7. \A k \in 1..Len(calls) : i + k <= Len(transcript) => i + k \in 1..Len(transcript)
      BY <2>1, <2>3
    <2>8. transcript[i].role = "assistant" =>
             /\ \A k \in DOMAIN calls :
                   i + k \in DOMAIN transcript /\ transcript[i + k] = Reply(calls[k])
             /\ i + Len(calls) < Len(transcript) =>
                   transcript[i + Len(calls) + 1].role # "tool"
      BY <2>5, <2>6, <2>7
    <2> QED
      BY <2>8 DEF calls
  <1> QED
    BY <1>1, RoleLoopInvariant, PTL

\* No role sends the model server more requests than the limits multiply to.
THEOREM RequestsAreBounded == Spec => []RequestsBounded
  <1>1. IInv => RequestsBounded
    <2> SUFFICES ASSUME IInv PROVE RequestsBounded
      OBVIOUS
    <2>1. /\ TypeOK /\ Control /\ Spent
          /\ turn \in 0..MaxTurns /\ requests \in Nat
          /\ {MaxTurns, MaxResponseRetries, MaxRetries} \subseteq Nat
      BY RoleAssumption DEF IInv, TypeOK, RoleAssumption
    <2> DEFINE q == MaxResponseRetries * MaxRetries
    <2>2. requests <= turn * q
      <3>1. CASE at = "post"
        BY <2>1, <3>1, LastRequest DEF TypeOK, Control
      <3>2. CASE at # "post"
        BY <2>1, <3>2 DEF Spent
      <3> QED
        BY <3>1, <3>2
    <2>3. turn * q <= MaxTurns * q
      <3>1. \A m, n, k \in Nat : m <= n => m * k <= n * k
        OBVIOUS
      <3> QED
        BY <2>1, <3>1
    <2>4. MaxTurns * q = MaxTurns * MaxResponseRetries * MaxRetries
      BY <2>1
    <2>5. turn * q \in Nat /\ MaxTurns * q \in Nat
      BY <2>1
    <2> HIDE DEF q
    <2>6. requests <= MaxTurns * q
      BY <2>1, <2>2, <2>3, <2>5
    <2> QED
      BY <2>4, <2>6 DEF RequestsBounded
  <1> QED
    BY <1>1, RoleLoopInvariant, PTL

-----------------------------------------------------------------------------
(* How long a conversation can be.  LoopEnds needs the fairness of the       *)
(* thread; that the loop cannot go on for ever needs none.                   *)

\* What one turn takes at most: its beginning, its requests, its tool calls.
TurnSteps == 1 + MaxResponseRetries * MaxRetries + MaxCalls

\* At most how many steps of the loop are left.
StepsLeft ==
    CASE at = "done"  -> 0
      [] at = "turn"  -> (MaxTurns - turn) * TurnSteps + 1
      [] at = "tools" -> (MaxTurns - turn) * TurnSteps + Len(pending) + 1
      [] at = "post"  -> (MaxTurns - turn) * TurnSteps + MaxCalls
                           + (MaxResponseRetries - attempt) * MaxRetries
                           + (MaxRetries - post) + 2

\* No step leaves as many steps to do as there were.
EachStepCounts == [][StepsLeft' < StepsLeft]_vars

\* What StepsLeft counts on besides IInv.
Bounded == Len(pending) \in 0..MaxCalls /\ (at = "tools" => turn # 0)

\* The pending replies stay within a message's calls.
LEMMA BoundedKept ==
    ASSUME TypeOK, Control, Bounded, [Next]_vars
    PROVE  Bounded'
  <1>1. CASE CallsTools
    <2>1. PICK n \in 1..MaxCalls : pending' \in [1..n -> Tools]
      BY <1>1 DEF CallsTools, CallLists
    <2>2. Len(pending') = n
      BY <2>1
    <2>3. turn' # 0
      BY <1>1 DEF CallsTools, Control, TypeOK
    <2> QED
      BY <2>1, <2>2, <2>3 DEF Bounded
  <1>2. CASE RunTool
    <2>1. pending # <<>> /\ pending \in Seq(Tools) /\ pending' = Tail(pending)
      BY <1>2 DEF RunTool, TypeOK, Control
    <2>2. Len(pending') = Len(pending) - 1 /\ Len(pending) # 0
      BY <2>1
    <2>3. MaxCalls \in Nat /\ at = "tools" /\ turn' = turn
      BY <1>2, RoleAssumption DEF RoleAssumption, RunTool
    <2> QED
      BY <2>2, <2>3 DEF Bounded
  <1>3. CASE UNCHANGED pending /\ at' # "tools"
    BY <1>3 DEF Bounded
  <1>4. CASE UNCHANGED vars
    BY <1>4 DEF Bounded, vars
  <1> QED
    BY <1>1, <1>2, <1>3, <1>4 DEF Next, BeginTurn, ExceedMaxTurns, PostFails,
       PostMisshapen, Answers, Rambles, End

\* The cases of StepsLeft, one by one.
LEMMA StepsLeftCases ==
    /\ at = "done" => StepsLeft = 0
    /\ at = "turn" => StepsLeft = (MaxTurns - turn) * TurnSteps + 1
    /\ at = "tools" => StepsLeft = (MaxTurns - turn) * TurnSteps + Len(pending) + 1
    /\ at = "post" => StepsLeft = (MaxTurns - turn) * TurnSteps + MaxCalls
                           + (MaxResponseRetries - attempt) * MaxRetries
                           + (MaxRetries - post) + 2
  BY DEF StepsLeft

\* The arithmetic of a turn that begins and of an attempt that begins.
LEMMA LeftMultiples ==
    /\ TurnSteps \in Nat
    /\ \A t \in 0..MaxTurns :
          /\ (MaxTurns - t) * TurnSteps \in 0..MaxTurns * TurnSteps
          /\ t # 0 => (MaxTurns - t) * TurnSteps + TurnSteps <= MaxTurns * TurnSteps
          /\ t # MaxTurns => (MaxTurns - t) * TurnSteps
                               = (MaxTurns - (t + 1)) * TurnSteps + TurnSteps
    /\ \A a \in 1..MaxResponseRetries :
          /\ (MaxResponseRetries - a) * MaxRetries \in Nat
          /\ (MaxResponseRetries - a) * MaxRetries + MaxRetries
               <= MaxResponseRetries * MaxRetries
          /\ a # MaxResponseRetries => (MaxResponseRetries - a) * MaxRetries
               = (MaxResponseRetries - (a + 1)) * MaxRetries + MaxRetries
    /\ (MaxResponseRetries - 1) * MaxRetries + MaxRetries = MaxResponseRetries * MaxRetries
  <1>1. MaxResponseRetries \in Nat \ {0} /\ MaxRetries \in Nat \ {0} /\ MaxTurns \in Nat
          /\ MaxCalls \in Nat
    BY RoleAssumption DEF RoleAssumption
  <1>2. \A m, n, k \in Nat : m <= n => m * k <= n * k
    OBVIOUS
  <1>3. \A n, k \in Nat : n # 0 => n * k = (n - 1) * k + k
    OBVIOUS
  <1>4. \A n, k \in Nat : n * k \in Nat
    OBVIOUS
  <1>5. TurnSteps \in Nat
    BY <1>1, <1>4 DEF TurnSteps
  <1>6. ASSUME NEW t \in 0..MaxTurns
        PROVE  /\ (MaxTurns - t) * TurnSteps \in 0..MaxTurns * TurnSteps
               /\ t # 0 => (MaxTurns - t) * TurnSteps + TurnSteps <= MaxTurns * TurnSteps
               /\ t # MaxTurns => (MaxTurns - t) * TurnSteps
                                    = (MaxTurns - (t + 1)) * TurnSteps + TurnSteps
    <2> DEFINE m == MaxTurns - t
    <2>1. m \in Nat /\ m <= MaxTurns /\ m - 1 = MaxTurns - (t + 1) /\ (t # MaxTurns => m # 0)
            /\ m + 1 \in Nat /\ (t # 0 => m + 1 <= MaxTurns)
      BY <1>1
    <2> HIDE DEF m
    <2>2. m * TurnSteps \in Nat /\ m * TurnSteps <= MaxTurns * TurnSteps
            /\ MaxTurns * TurnSteps \in Nat
      BY <1>1, <1>2, <1>4, <1>5, <2>1
    <2>3. m # 0 => m * TurnSteps = (m - 1) * TurnSteps + TurnSteps
      BY <1>3, <1>5, <2>1
    <2>4. m * TurnSteps \in 0..MaxTurns * TurnSteps
      BY <2>2
    <2>5. (m + 1) * TurnSteps = m * TurnSteps + TurnSteps
      BY <1>3, <1>5, <2>1
    <2>6. t # 0 => (m + 1) * TurnSteps <= MaxTurns * TurnSteps
      BY <1>1, <1>2, <1>5, <2>1
    <2>7. t # MaxTurns => m * TurnSteps = (MaxTurns - (t + 1)) * TurnSteps + TurnSteps
      BY <2>1, <2>3
    <2> QED
      BY <2>4, <2>5, <2>6, <2>7 DEF m
  <1>7. ASSUME NEW a \in 1..MaxResponseRetries
        PROVE  /\ (MaxResponseRetries - a) * MaxRetries \in Nat
               /\ (MaxResponseRetries - a) * MaxRetries + MaxRetries
                    <= MaxResponseRetries * MaxRetries
               /\ a # MaxResponseRetries => (MaxResponseRetries - a) * MaxRetries
                    = (MaxResponseRetries - (a + 1)) * MaxRetries + MaxRetries
    <2> DEFINE m == MaxResponseRetries - a
    <2>1. /\ m \in Nat /\ m <= MaxResponseRetries - 1 /\ MaxResponseRetries - 1 \in Nat
          /\ m - 1 = MaxResponseRetries - (a + 1) /\ (a # MaxResponseRetries => m # 0)
      BY <1>1
    <2> HIDE DEF m
    <2>2. m * MaxRetries \in Nat /\ m * MaxRetries <= (MaxResponseRetries - 1) * MaxRetries
            /\ (MaxResponseRetries - 1) * MaxRetries \in Nat
      BY <1>1, <1>2, <1>4, <2>1
    <2>3. MaxResponseRetries * MaxRetries = (MaxResponseRetries - 1) * MaxRetries + MaxRetries
      BY <1>1, <1>3
    <2>4. m * MaxRetries + MaxRetries <= MaxResponseRetries * MaxRetries
      BY <1>1, <2>2, <2>3
    <2>5. m # 0 => m * MaxRetries = (m - 1) * MaxRetries + MaxRetries
      BY <1>1, <1>3, <2>1
    <2>6. a # MaxResponseRetries =>
             m * MaxRetries = (MaxResponseRetries - (a + 1)) * MaxRetries + MaxRetries
      BY <2>1, <2>5
    <2> QED
      BY <2>2, <2>4, <2>6 DEF m
  <1>8. (MaxResponseRetries - 1) * MaxRetries + MaxRetries = MaxResponseRetries * MaxRetries
    BY <1>1, <1>3
  <1> QED
    BY <1>5, <1>6, <1>7, <1>8

\* The steps left are within the bound, and only an ended loop has none.
LEMMA StepsLeftType ==
    ASSUME IInv, Bounded
    PROVE  /\ StepsLeft \in 0..MaxTurns * TurnSteps + 1
           /\ at # "done" => StepsLeft # 0
  <1> DEFINE r == (MaxTurns - turn) * TurnSteps
             q == MaxResponseRetries * MaxRetries
             x == (MaxResponseRetries - attempt) * MaxRetries
             z == MaxTurns * TurnSteps
  <1>1. /\ MaxRetries \in Nat /\ MaxCalls \in Nat /\ turn \in 0..MaxTurns
        /\ at \in {"turn", "post", "tools", "done"} /\ Len(pending) \in 0..MaxCalls
        /\ MaxTurns \in Nat /\ MaxResponseRetries \in Nat
    BY RoleAssumption DEF IInv, TypeOK, RoleAssumption, Bounded
  <1>2. r \in 0..z /\ (turn # 0 => r + TurnSteps <= z) /\ TurnSteps \in Nat
    BY <1>1, LeftMultiples
  <1>3. \A n, k \in Nat : n * k \in Nat
    OBVIOUS
  <1>4. z \in Nat /\ q \in Nat
    BY <1>1, <1>2, <1>3
  <1>5. TurnSteps = 1 + q + MaxCalls
    BY DEF TurnSteps
  <1>6. CASE at \in {"turn", "done"}
    <2>1. StepsLeft \in {0, r + 1} /\ (at = "turn" => StepsLeft = r + 1)
      BY <1>6, StepsLeftCases
    <2> HIDE DEF r, z
    <2>2. StepsLeft \in 0..z + 1 /\ (at = "turn" => StepsLeft # 0)
      BY <1>2, <1>4, <2>1
    <2> QED
      BY <1>6, <2>2 DEF z
  <1>7. CASE at = "tools"
    <2>1. StepsLeft = r + Len(pending) + 1 /\ turn # 0
      BY <1>7, StepsLeftCases DEF Bounded
    <2> HIDE DEF r, z, q
    <2>2. StepsLeft \in 0..z + 1 /\ StepsLeft # 0
      BY <1>1, <1>2, <1>4, <1>5, <2>1
    <2> QED
      BY <2>2 DEF z
  <1>8. CASE at = "post"
    <2>1. StepsLeft = r + MaxCalls + x + (MaxRetries - post) + 2
      BY <1>8, StepsLeftCases
    <2>2. turn # 0 /\ attempt \in 1..MaxResponseRetries /\ post \in 1..MaxRetries
      BY <1>1, <1>8 DEF IInv, TypeOK, Control
    <2>3. x \in Nat /\ x + MaxRetries <= q
      BY <2>2, LeftMultiples
    <2> HIDE DEF r, z, q, x
    <2>4. StepsLeft \in 0..z + 1 /\ StepsLeft # 0
      BY <1>1, <1>2, <1>4, <1>5, <2>1, <2>2, <2>3
    <2> QED
      BY <2>4 DEF z
  <1> QED
    BY <1>1, <1>6, <1>7, <1>8

\* Each step leaves fewer steps.
LEMMA StepDescends ==
    ASSUME IInv, Bounded, Next
    PROVE  StepsLeft' < StepsLeft
  <1> DEFINE r == (MaxTurns - turn) * TurnSteps
             x == (MaxResponseRetries - attempt) * MaxRetries
  <1>1. /\ MaxRetries \in Nat \ {0} /\ MaxCalls \in Nat /\ turn \in 0..MaxTurns
        /\ MaxTurns \in Nat /\ MaxResponseRetries \in Nat \ {0}
        /\ Len(pending) \in 0..MaxCalls
    BY RoleAssumption DEF IInv, TypeOK, RoleAssumption, Bounded
  <1>2. StepsLeft \in Nat /\ (at # "done" => StepsLeft # 0)
    <2>1. \A n, k \in Nat : n * k \in Nat
      OBVIOUS
    <2>2. MaxTurns * TurnSteps \in Nat
      BY <1>1, <2>1, LeftMultiples
    <2> HIDE DEF r, x
    <2> QED
      BY <2>2, StepsLeftType
  <1>3. r \in Nat /\ TurnSteps \in Nat
    BY <1>1, LeftMultiples
  <1>4. /\ at' = "done" => StepsLeft' = 0
        /\ at' = "turn" => StepsLeft' = (MaxTurns - turn') * TurnSteps + 1
        /\ at' = "tools" => StepsLeft' = (MaxTurns - turn') * TurnSteps + Len(pending') + 1
        /\ at' = "post" => StepsLeft' = (MaxTurns - turn') * TurnSteps + MaxCalls
                           + (MaxResponseRetries - attempt') * MaxRetries
                           + (MaxRetries - post') + 2
    BY DEF StepsLeft, TurnSteps
  <1>5. Bounded'
    BY BoundedKept DEF IInv
  <1>6. at = "post" =>
          /\ x \in Nat /\ attempt \in 1..MaxResponseRetries /\ post \in 1..MaxRetries
          /\ StepsLeft = r + MaxCalls + x + (MaxRetries - post) + 2
    <2>1. at = "post" => attempt \in 1..MaxResponseRetries /\ post \in 1..MaxRetries
      BY <1>1 DEF IInv, TypeOK, Control
    <2> QED
      BY <2>1, LeftMultiples, StepsLeftCases
  <1>7. CASE at # "done" /\ at' = "done"
    BY <1>2, <1>4, <1>7
  <1>8. CASE BeginTurn
    <2> DEFINE r1 == (MaxTurns - (turn + 1)) * TurnSteps
               x1 == (MaxResponseRetries - 1) * MaxRetries
               q == MaxResponseRetries * MaxRetries
    <2>1. StepsLeft = r + 1 /\ r = r1 + TurnSteps
      BY <1>1, <1>8, LeftMultiples, StepsLeftCases DEF BeginTurn
    <2>2. StepsLeft' = r1 + MaxCalls + x1 + (MaxRetries - 1) + 2
      BY <1>4, <1>8 DEF BeginTurn
    <2>3. r1 \in Nat /\ x1 \in Nat /\ x1 + MaxRetries = q /\ TurnSteps = 1 + q + MaxCalls
      BY <1>1, <1>8, LeftMultiples DEF BeginTurn, TurnSteps
    <2> HIDE DEF r, r1, x1, q
    <2> QED
      BY <1>1, <2>1, <2>2, <2>3
  <1>9. CASE PostFails /\ at' # "done"
    <2>1. at = "post" /\ at' = "post" /\ turn' = turn
      BY <1>9 DEF PostFails, End
    <2>2. CASE post < MaxRetries
      <3>1. StepsLeft' = r + MaxCalls + x + (MaxRetries - (post + 1)) + 2
        BY <1>4, <1>9, <2>1, <2>2 DEF PostFails
      <3> HIDE DEF r, x
      <3> QED
        BY <1>1, <1>3, <1>6, <2>1, <3>1
    <2>3. CASE ~ (post < MaxRetries)
      <3> DEFINE x1 == (MaxResponseRetries - (attempt + 1)) * MaxRetries
      <3>1. attempt < MaxResponseRetries /\ attempt' = attempt + 1 /\ post' = 1
        BY <1>9, <2>3 DEF PostFails, End
      <3>2. StepsLeft' = r + MaxCalls + x1 + (MaxRetries - 1) + 2
        BY <1>4, <2>1, <3>1
      <3>3. x = x1 + MaxRetries /\ x1 \in Nat
        <4>1. /\ attempt \in 1..MaxResponseRetries /\ attempt # MaxResponseRetries
              /\ attempt + 1 \in 1..MaxResponseRetries
          BY <1>1, <1>6, <2>1, <3>1
        <4>2. x = x1 + MaxRetries
          BY <4>1, LeftMultiples
        <4>3. x1 \in Nat
          BY <4>1, LeftMultiples
        <4> QED
          BY <4>2, <4>3
      <3> HIDE DEF r, x, x1
      <3> QED
        BY <1>1, <1>3, <1>6, <2>1, <2>3, <3>2, <3>3
    <2> QED
      BY <2>2, <2>3
  <1>10. CASE CallsTools
    <2>1. at = "post" /\ at' = "tools" /\ turn' = turn
      BY <1>10 DEF CallsTools
    <2>2. StepsLeft' = r + Len(pending') + 1 /\ Len(pending') \in 0..MaxCalls
      BY <1>4, <1>5, <2>1 DEF Bounded
    <2> HIDE DEF r, x
    <2> QED
      BY <1>1, <1>3, <1>6, <2>1, <2>2
  <1>11. CASE Rambles
    <2>1. at = "post" /\ at' = "turn" /\ turn' = turn
      BY <1>11 DEF Rambles
    <2>2. StepsLeft' = r + 1
      BY <1>4, <2>1
    <2> HIDE DEF r, x
    <2> QED
      BY <1>1, <1>3, <1>6, <2>1, <2>2
  <1>12. CASE RunTool
    <2>1. at = "tools" /\ turn' = turn /\ pending' = Tail(pending)
          /\ at' = IF Len(pending) = 1 THEN "turn" ELSE "tools"
      BY <1>12 DEF RunTool
    <2>2. pending # <<>> /\ pending \in Seq(Tools)
      BY <2>1 DEF IInv, TypeOK, Control
    <2>3. Len(pending') = Len(pending) - 1
      BY <2>1, <2>2
    <2>4. StepsLeft = r + Len(pending) + 1
      BY <2>1, StepsLeftCases
    <2>5. StepsLeft' = r + Len(pending)
      <3>1. CASE Len(pending) = 1
        BY <1>4, <2>1, <3>1
      <3>2. CASE Len(pending) # 1
        <4>1. StepsLeft' = r + Len(pending') + 1
          BY <1>4, <2>1, <3>2
        <4> HIDE DEF r
        <4> QED
          BY <1>1, <1>3, <2>3, <4>1
      <3> QED
        BY <3>1, <3>2
    <2> HIDE DEF r, x
    <2> QED
      BY <1>1, <1>3, <2>4, <2>5
  <1> QED
    BY <1>7, <1>8, <1>9, <1>10, <1>11, <1>12
       DEF Next, ExceedMaxTurns, PostFails, PostMisshapen, Answers, End

\* A conversation takes at most max_turns times the steps of a turn, and one to
\* give up, whatever the model says and however its server fails.
THEOREM ConversationIsBounded ==
    Spec => /\ [](StepsLeft \in 0..MaxTurns * TurnSteps + 1)
            /\ [](StepsLeft = 0 => at = "done")
            /\ EachStepCounts
  <1>1. Init => Bounded
    BY RoleAssumption DEF Init, Bounded, RoleAssumption
  <1>2. IInv /\ Bounded /\ [Next]_vars => Bounded'
    BY BoundedKept DEF IInv
  <1>3. IInv /\ Bounded =>
          StepsLeft \in 0..MaxTurns * TurnSteps + 1 /\ (StepsLeft = 0 => at = "done")
    BY StepsLeftType
  <1>4. IInv /\ Bounded /\ [Next]_vars => [StepsLeft' < StepsLeft]_vars
    BY StepDescends
  <1> QED
    BY <1>1, <1>2, <1>3, <1>4, RoleLoopInvariant, PTL DEF Spec, EachStepCounts
=============================================================================
