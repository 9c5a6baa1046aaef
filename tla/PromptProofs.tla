---------------------------- MODULE PromptProofs -----------------------------
(* The matching of histories (HistoryMatch), for any clients, questions,      *)
(* answers and numbers of turns. The invariant names, for every stored row,   *)
(* the conversation it really grew from: what the row shows of it is only     *)
(* what its client sent. Then the pictures of a prompt (Pictures): the        *)
(* invariant names an owner for every id that was given out.                  *)
EXTENDS HistoryMatch, Pictures, OrderLemmas

-----------------------------------------------------------------------------
Message   == [role : {"user", "assistant"}, text : Questions \cup Replies, thought : Thoughts \cup {None}]
Prompt    == SystemOf[CHOOSE c \in Clients : TRUE]
Snapshots == [messages : Seq(Message), tape : Seq(Message \cup {Prompt}), segments : Seq(Message)]

\* A conversation as it was: questions and answers in turn, with every thought.
Whole(t) == /\ t \in Seq(Message) /\ Len(t) % 2 = 0
            /\ \A i \in 1..Len(t) : IF i % 2 = 1 THEN t[i].role = "user" /\ t[i].thought = None
                                    ELSE t[i].role = "assistant" /\ t[i].thought # None
AnswersOf(t) == [j \in 1..Len(t) \div 2 |-> t[2 * j]]

\* What a client may show of it.
Shown(m, t) == /\ m \in Seq(Message) /\ Len(m) = Len(t)
               /\ \A i \in 1..Len(t) : /\ m[i].role = t[i].role /\ m[i].text = t[i].text
                                       /\ m[i].thought \in {None, t[i].thought}
StoredOf(m, t) == Snapshot(m, <<Prompt>> \o t, AnswersOf(t))

HistoryTypes ==
    /\ rows \in Seq(Snapshots)
    /\ past = [c \in Clients |-> past[c]] /\ own = [c \in Clients |-> own[c]]
    /\ asking = [c \in Clients |-> asking[c]] /\ parent = [c \in Clients |-> parent[c]]

RowsAreWhole == \A n \in 1..Len(rows) : \E m, t : Whole(t) /\ Shown(m, t) /\ rows[n] = StoredOf(m, t)

\* The k-th turn of a client is a row.
OwnRow(c, k) == \E n \in 1..Len(rows) : \E m :
    /\ own[c][k] = rows[n] /\ rows[n] = StoredOf(m, SubSeq(past[c], 1, 2 * k))
    /\ Shown(m, SubSeq(past[c], 1, 2 * k)) /\ (c \in Keepers => m = SubSeq(past[c], 1, 2 * k))
OwnRows == \A c \in Clients : /\ Whole(past[c]) /\ own[c] \in Seq(Snapshots)
                              /\ Len(past[c]) = 2 * Len(own[c])
                              /\ \A k \in 1..Len(own[c]) : OwnRow(c, k)

\* What a request under way was given.
Continues(c, p) ==
    \/ p = Ambiguous /\ c \notin Keepers
    \/ p # Ambiguous /\ p.segments = AnswersOf(past[c]) /\ (own[c] # <<>> => p.tape = <<Prompt>> \o past[c])
Asked == \A c \in Clients :
    \/ asking[c] = <<>> /\ parent[c] = NoParent
    \/ \E q \in Questions : asking[c] = Append(Resent(c), UserSays(q)) /\ Continues(c, parent[c])

HistoryInv == HistoryTypes /\ RowsAreWhole /\ OwnRows /\ Asked

-----------------------------------------------------------------------------
(* Facts about conversations.                                                 *)

LEMMA PrefixOf ==
    ASSUME NEW S, NEW s \in Seq(S), NEW n \in 0..Len(s)
    PROVE  /\ SubSeq(s, 1, n) \in Seq(S) /\ Len(SubSeq(s, 1, n)) = n
           /\ \A i \in 1..n : SubSeq(s, 1, n)[i] = s[i]
  OBVIOUS

LEMMA SameSequence ==
    ASSUME NEW S, NEW s \in Seq(S), NEW t \in Seq(S), Len(s) = Len(t), \A i \in 1..Len(s) : s[i] = t[i]
    PROVE  s = t
  OBVIOUS

(* The rest of a sequence, and what is left of it behind its first element.   *)
LEMMA TailOfPart ==
    ASSUME NEW S, NEW a \in Seq(S), NEW h \in Nat, NEW k \in Nat, h < k, k = Len(a)
    PROVE  LET rest == SubSeq(a, h + 1, k) IN
           /\ rest \in Seq(S) /\ Len(rest) = k - h /\ rest[1] = a[h + 1] /\ SubSeq(rest, 1, 0) = <<>>
           /\ SubSeq(rest, 2, Len(rest)) = SubSeq(a, h + 2, k) /\ SubSeq(a, h + 2, k) \in Seq(S)
  <1>1. PICK d \in Nat : k = h + d + 1 /\ k - h = d + 1
    <2>1. k - h - 1 \in Nat /\ k = h + (k - h - 1) + 1 /\ k - h = (k - h - 1) + 1
      OBVIOUS
    <2> QED
      BY <2>1
  <1>2. PICK s : s = SubSeq(a, h + 1, k)
    OBVIOUS
  <1>3. s \in Seq(S) /\ Len(s) = d + 1 /\ \A i \in 1..d + 1 : s[i] = a[h + i]
    <2>1. h + 1 \in Nat /\ k - (h + 1) + 1 = d + 1 /\ \A i \in 1..d + 1 : i + (h + 1) - 1 = h + i /\ h + i \in 1..k
      BY <1>1
    <2>2. s = [i \in 1..d + 1 |-> a[h + i]]
      BY <1>2, <2>1
    <2>3. \A i \in 1..d + 1 : a[h + i] \in S
      BY <2>1
    <2> QED
      BY <2>2, <2>3
  <1>4. PICK t : t = SubSeq(a, h + 2, k)
    OBVIOUS
  <1>5. t \in Seq(S) /\ Len(t) = d /\ \A i \in 1..d : t[i] = a[h + 1 + i]
    <2>1. k - (h + 2) + 1 = d /\ \A i \in 1..d : i + (h + 2) - 1 = h + 1 + i /\ h + 1 + i \in 1..k
      BY <1>1
    <2>2. t = [i \in 1..d |-> a[h + 1 + i]]
      BY <1>4, <2>1
    <2>3. \A i \in 1..d : a[h + 1 + i] \in S
      BY <2>1
    <2> QED
      BY <2>2, <2>3
  <1>6. PICK w : w = SubSeq(s, 2, d + 1)
    OBVIOUS
  <1>7. w \in Seq(S) /\ Len(w) = d /\ \A i \in 1..d : w[i] = s[i + 1]
    BY <1>3, <1>6
  <1>8. ASSUME NEW i \in 1..d PROVE w[i] = t[i]
    <2>1. PICK j \in 1..d + 1 : j = i + 1 /\ h + j = h + 1 + i
      OBVIOUS
    <2> QED
      BY <2>1, <1>3, <1>5, <1>7
  <1>9. w = t
    BY <1>5, <1>7, <1>8, SameSequence
  <1>10. s[1] = a[h + 1] /\ SubSeq(s, 1, 0) = <<>>
    BY <1>3
  <1> QED
    BY <1>1, <1>2, <1>3, <1>4, <1>5, <1>6, <1>9, <1>10

LEMMA HalfOf ==
    ASSUME NEW n \in Nat
    PROVE  /\ (2 * n) \div 2 = n /\ (2 * n) % 2 = 0 /\ (2 * n + 1) % 2 = 1 /\ (2 * n + 2) % 2 = 0
           /\ n \div 2 \in Nat /\ (n % 2 = 0 => 2 * (n \div 2) = n) /\ (n % 2 = 1 => 2 * (n \div 2) + 1 = n)
           /\ n % 2 \in {0, 1}
  OBVIOUS

LEMMA MessageParts ==
    ASSUME NEW m \in Message
    PROVE  /\ m = [role |-> m.role, text |-> m.text, thought |-> m.thought]
           /\ m.role \in {"user", "assistant"} /\ m.text \in Questions \cup Replies
           /\ m.thought \in Thoughts \cup {None}
  BY DEF Message

LEMMA SameMessage ==
    ASSUME NEW m \in Message, NEW n \in Message, m.role = n.role, m.text = n.text, m.thought = n.thought
    PROVE  m = n
  BY MessageParts

LEMMA SaidIsMessage ==
    ASSUME NEW q \in Questions, NEW a \in Replies, NEW t \in Thoughts
    PROVE  /\ UserSays(q) \in Message /\ UserSays(q).role = "user" /\ UserSays(q).text = q /\ UserSays(q).thought = None
           /\ AssistantSays(a, t) \in Message /\ AssistantSays(a, t).role = "assistant"
           /\ AssistantSays(a, t).text = a /\ AssistantSays(a, t).thought = t
  BY DEF Message, UserSays, AssistantSays

LEMMA QuestionIsMessage ==
    ASSUME NEW q \in Questions
    PROVE  /\ UserSays(q) \in Message /\ UserSays(q).role = "user" /\ UserSays(q).thought = None
  BY DEF Message, UserSays

LEMMA AnswersTyped ==
    ASSUME NEW t, Whole(t)
    PROVE  /\ AnswersOf(t) \in Seq(Message) /\ Len(AnswersOf(t)) = Len(t) \div 2 /\ Len(t) = 2 * (Len(t) \div 2)
           /\ Len(t) \div 2 \in Nat /\ \A j \in 1..Len(t) \div 2 : AnswersOf(t)[j] = t[2 * j]
  <1>1. t \in Seq(Message) /\ Len(t) % 2 = 0
    BY DEF Whole
  <1>2. PICK k \in Nat : k = Len(t) \div 2 /\ Len(t) = 2 * k
    BY <1>1, HalfOf
  <1>3. \A j \in 1..k : t[2 * j] \in Message
    BY <1>1, <1>2
  <1>4. AnswersOf(t) = [j \in 1..k |-> t[2 * j]]
    BY <1>2 DEF AnswersOf
  <1>5. AnswersOf(t) \in [1..k -> Message]
    BY <1>3, <1>4
  <1> QED
    BY <1>2, <1>4, <1>5

(* What a client resends shows its conversation, a keeper all of it.          *)
LEMMA ResentIsShown ==
    ASSUME HistoryAssumption, NEW c \in Clients, Whole(past[c])
    PROVE  Shown(Resent(c), past[c]) /\ (c \in Keepers => Resent(c) = past[c])
  <1>1. PICK P : P = past[c]
    OBVIOUS
  <1>2. P \in Seq(Message) /\ Len(P) \in Nat
    BY <1>1 DEF Whole
  <1>3. Resent(c) = [i \in 1..Len(P) |-> [P[i] EXCEPT !.thought = IF c \in Keepers THEN @ ELSE None]]
    BY <1>1, <1>2 DEF Resent
  <1> DEFINE R == [i \in 1..Len(P) |-> [P[i] EXCEPT !.thought = IF c \in Keepers THEN @ ELSE None]]
  <1>4. ASSUME NEW i \in 1..Len(P)
        PROVE  /\ R[i] \in Message /\ R[i].role = P[i].role /\ R[i].text = P[i].text
               /\ R[i].thought \in {None, P[i].thought} /\ (c \in Keepers => R[i] = P[i])
    <2>1. P[i] \in Message
      BY <1>2
    <2>2. PICK r \in {"user", "assistant"}, x \in Questions \cup Replies, h \in Thoughts \cup {None} :
             P[i] = [role |-> r, text |-> x, thought |-> h]
      BY <2>1 DEF Message
    <2>3. R[i] = [role |-> r, text |-> x, thought |-> IF c \in Keepers THEN h ELSE None]
      BY <2>2
    <2> QED
      BY <2>2, <2>3 DEF Message
  <1>5. R \in Seq(Message) /\ Len(R) = Len(P)
    <2>1. R \in [1..Len(P) -> Message]
      BY <1>4
    <2> HIDE DEF R
    <2> QED
      BY <2>1, <1>2
  <1>6. Resent(c) = R
    BY <1>3
  <1> HIDE DEF R
  <1>7. Shown(R, P)
    BY <1>4, <1>5 DEF Shown
  <1>8. c \in Keepers => R = P
    BY <1>2, <1>4, <1>5, SameSequence
  <1> QED
    BY <1>1, <1>6, <1>7, <1>8

-----------------------------------------------------------------------------
(* render, of a conversation that grew from its parent: every answer finds    *)
(* its own segment at the head of those that are left.                        *)

LEMMA RenderOwn ==
    ASSUME NEW P, Whole(P), NEW R, Shown(R, P), NEW q \in Questions
    PROVE  LET rendered == Render(Append(R, UserSays(q)), AnswersOf(P))
           IN  rendered.prompt = Append(P, UserSays(q)) /\ rendered.retained = AnswersOf(P)
  <1> DEFINE m == Append(R, UserSays(q))
             A == AnswersOf(P)
             L == Len(P)
             k == L \div 2
             start == [left |-> A, retained |-> <<>>, prompt |-> <<>>]
             Rule(f) == f = [n \in 0..Len(m) |-> IF n = 0 THEN start ELSE Placed(f[n - 1], m[n])]
             mid(n) == [left |-> SubSeq(A, n \div 2 + 1, k), retained |-> SubSeq(A, 1, n \div 2),
                        prompt |-> SubSeq(P, 1, n)]
             last == [left |-> <<>>, retained |-> A, prompt |-> Append(P, UserSays(q))]
             closed == [n \in 0..L + 1 |-> IF n <= L THEN mid(n) ELSE last]
             placed == CHOOSE f : Rule(f)
  <1>1. Render(m, A) = placed[Len(m)]
    BY Zenon DEF Render
  <1>2. /\ P \in Seq(Message) /\ L \in Nat /\ R \in Seq(Message) /\ Len(R) = L /\ L % 2 = 0
        /\ A \in Seq(Message) /\ Len(A) = k /\ k \in Nat /\ L = 2 * k /\ \A j \in 1..k : A[j] = P[2 * j]
    <2>1. P \in Seq(Message) /\ L \in Nat /\ R \in Seq(Message) /\ Len(R) = L /\ L % 2 = 0
      BY DEF Whole, Shown
    <2>2. /\ AnswersOf(P) \in Seq(Message) /\ Len(AnswersOf(P)) = Len(P) \div 2 /\ Len(P) = 2 * (Len(P) \div 2)
          /\ Len(P) \div 2 \in Nat /\ \A j \in 1..Len(P) \div 2 : AnswersOf(P)[j] = P[2 * j]
      BY AnswersTyped
    <2> QED
      BY <2>1, <2>2
  <1>3. /\ m \in Seq(Message) /\ Len(m) = L + 1 /\ m[L + 1] = UserSays(q) /\ \A n \in 1..L : m[n] = R[n]
        /\ UserSays(q).role = "user"
    <2>1. PICK u \in Message : u = UserSays(q) /\ u.role = "user"
      BY QuestionIsMessage
    <2>2. m = Append(R, u) /\ R \in Seq(Message) /\ Len(R) = L /\ L \in Nat
      BY <2>1, <1>2
    <2> HIDE DEF m, L
    <2>3. PICK s : s = Append(R, u)
      OBVIOUS
    <2>4. s \in Seq(Message) /\ Len(s) = L + 1 /\ s[L + 1] = u /\ \A n \in 1..L : s[n] = R[n]
      BY <2>1, <2>2, <2>3
    <2> QED
      BY <2>1, <2>2, <2>3, <2>4
  <1> HIDE DEF m, A, k
  <1>4. mid(0) = start
    <2>1. SubSeq(A, 1, k) = A /\ SubSeq(A, 1, 0) = <<>> /\ SubSeq(P, 1, 0) = <<>> /\ 0 \div 2 = 0
      BY <1>2
    <2>2. mid(0) = [left |-> SubSeq(A, 0 \div 2 + 1, k), retained |-> SubSeq(A, 1, 0 \div 2), prompt |-> SubSeq(P, 1, 0)]
      OBVIOUS
    <2>3. 0 \div 2 + 1 = 1 /\ 0 \div 2 = 0
      OBVIOUS
    <2>4. mid(0) = [left |-> SubSeq(A, 1, k), retained |-> SubSeq(A, 1, 0), prompt |-> SubSeq(P, 1, 0)]
      BY Zenon, <2>2, <2>3
    <2> QED
      BY Zenon, <2>1, <2>4
  <1>5. ASSUME NEW n \in 1..L
        PROVE  mid(n) = Placed(mid(n - 1), m[n])
    <2>1. /\ m[n] \in Message /\ m[n] = R[n] /\ R[n].role = P[n].role /\ R[n].text = P[n].text
          /\ R[n].thought \in {None, P[n].thought} /\ P[n] \in Message
      BY <1>2, <1>3 DEF Shown
    <2>2. SubSeq(P, 1, n) = Append(SubSeq(P, 1, n - 1), P[n])
      BY <1>2
    <2>3. CASE n % 2 = 1
      <3>1. P[n].role = "user" /\ P[n].thought = None
        BY <2>3 DEF Whole
      <3>2. m[n] = P[n]
        BY <2>1, <3>1, SameMessage
      <3>3. n \div 2 = (n - 1) \div 2
        BY <2>3
      <3>4. Placed(mid(n - 1), m[n]) = [mid(n - 1) EXCEPT !.prompt = Append(@, m[n])]
        BY <3>1, <3>2 DEF Placed
      <3> QED
        BY <3>2, <3>3, <3>4, <2>2
    <2>4. CASE n % 2 = 0
      <3>1. PICK h \in Nat : n = 2 * h + 2 /\ n \div 2 = h + 1 /\ (n - 1) \div 2 = h /\ h < k
        <4>1. PICK g \in Nat : g = n \div 2 /\ n = 2 * g
          BY <2>4, HalfOf
        <4>2. g # 0 /\ g - 1 \in Nat /\ (n - 1) \div 2 = g - 1 /\ g <= k
          BY <4>1, <1>2
        <4>3. PICK h \in Nat : h = g - 1
          BY <4>2
        <4>4. n = 2 * h + 2 /\ h + 1 = g /\ h < k
          BY <4>1, <4>2, <4>3, <1>2
        <4> QED
          BY <4>1, <4>2, <4>3, <4>4
      <3> DEFINE rest == SubSeq(A, h + 1, k)
      <3>2. rest \in Seq(Message) /\ Len(rest) = k - h /\ rest[1] = A[h + 1]
            /\ SubSeq(rest, 1, 0) = <<>> /\ SubSeq(rest, 2, Len(rest)) = SubSeq(A, h + 2, k)
            /\ SubSeq(A, h + 2, k) \in Seq(Message)
        BY <1>2, <3>1, TailOfPart
      <3>3. A[h + 1] = P[n] /\ P[n].role = "assistant"
        BY <1>2, <3>1, <2>4 DEF Whole
      <3> HIDE DEF rest
      <3>4. mid(n - 1) = [left |-> rest, retained |-> SubSeq(A, 1, h), prompt |-> SubSeq(P, 1, n - 1)]
        BY <3>1 DEF rest
      <3> DEFINE fits == {i \in DOMAIN rest : rest[i].text = m[n].text}
      <3>5. 1 \in fits /\ fits \subseteq Nat /\ \A i \in fits : 1 <= i
        BY <1>2, <3>1, <3>2, <3>3, <2>1
      <3> HIDE DEF fits
      <3>6. Min(fits) = 1
        <4>1. Min(fits) \in fits /\ \A i \in fits : Min(fits) <= i
          BY <3>5, MinIsLeast
        <4>2. Min(fits) <= 1 /\ 1 <= Min(fits) /\ Min(fits) \in Nat
          BY <4>1, <3>5
        <4> QED
          BY <4>2
      <3>7. RemoveAt(rest, 1) = SubSeq(A, h + 2, k)
        <4>1. RemoveAt(rest, 1) = SubSeq(rest, 1, 1 - 1) \o SubSeq(rest, 1 + 1, Len(rest))
          BY DEF RemoveAt
        <4>0. 1 - 1 = 0 /\ 1 + 1 = 2
          OBVIOUS
        <4>2. RemoveAt(rest, 1) = <<>> \o SubSeq(A, h + 2, k)
          BY Zenon, <4>0, <4>1, <3>2
        <4> QED
          BY <4>2, <3>2
      <3>8. SubSeq(A, 1, h + 1) = Append(SubSeq(A, 1, h), A[h + 1])
        BY <1>2, <3>1
      <3>9. Placed(mid(n - 1), m[n])
              = [left |-> RemoveAt(rest, Min(fits)), retained |-> Append(SubSeq(A, 1, h), rest[Min(fits)]),
                 prompt |-> Append(SubSeq(P, 1, n - 1), rest[Min(fits)])]
        <4>1. m[n].role = "assistant" /\ fits # {}
          BY <2>1, <3>3, <3>5
        <4> DEFINE st == [left |-> rest, retained |-> SubSeq(A, 1, h), prompt |-> SubSeq(P, 1, n - 1)]
        <4>2. st.left = rest /\ st.retained = SubSeq(A, 1, h) /\ st.prompt = SubSeq(P, 1, n - 1)
          OBVIOUS
        <4> HIDE DEF st
        <4>3. {i \in DOMAIN st.left : st.left[i].text = m[n].text} = fits
          BY <4>2 DEF fits
        <4>4. Placed(st, m[n]) = [left |-> RemoveAt(st.left, Min(fits)), retained |-> Append(st.retained, st.left[Min(fits)]),
                                  prompt |-> Append(st.prompt, st.left[Min(fits)])]
          BY <4>1, <4>3 DEF Placed
        <4> QED
          BY <4>2, <4>4, <3>4 DEF st
      <3>10. Placed(mid(n - 1), m[n])
               = [left |-> SubSeq(A, h + 2, k), retained |-> SubSeq(A, 1, h + 1), prompt |-> SubSeq(P, 1, n)]
        <4>1. rest[1] = P[n] /\ rest[1] = A[h + 1]
          BY <3>2, <3>3
        <4> QED
          BY Zenon, <4>1, <3>6, <3>7, <3>8, <3>9, <2>2
      <3>11. mid(n) = [left |-> SubSeq(A, h + 2, k), retained |-> SubSeq(A, 1, h + 1), prompt |-> SubSeq(P, 1, n)]
        <4>1. n \div 2 + 1 = h + 2
          BY <3>1
        <4> QED
          BY Zenon, <4>1, <3>1
      <3> QED
        BY <3>10, <3>11
    <2> QED
      BY <2>3, <2>4, HalfOf, <1>2
  <1>6. last = Placed(mid(L), m[L + 1])
    <2>1. L \div 2 = k /\ SubSeq(A, k + 1, k) = <<>> /\ SubSeq(A, 1, k) = A /\ SubSeq(P, 1, L) = P
      BY <1>2 DEF k
    <2>2. mid(L) = [left |-> <<>>, retained |-> A, prompt |-> P]
      BY <2>1
    <2>3. Placed(mid(L), m[L + 1]) = [mid(L) EXCEPT !.prompt = Append(@, m[L + 1])]
      BY <1>3 DEF Placed
    <2> QED
      BY <2>2, <2>3, <1>3
  <1> HIDE DEF mid, last, start
  <1>7. Rule(closed)
    <2>1. ASSUME NEW n \in 0..Len(m)
          PROVE  closed[n] = IF n = 0 THEN start ELSE Placed(closed[n - 1], m[n])
      <3>1. CASE n = 0
        BY <3>1, <1>2, <1>4
      <3>2. CASE n \in 1..L
        <4>1. closed[n] = mid(n) /\ closed[n - 1] = mid(n - 1) /\ n # 0
          BY <3>2, <1>2
        <4> QED
          BY <4>1, <3>2, <1>5
      <3>3. CASE n = L + 1
        <4>1. closed[n] = last /\ closed[n - 1] = mid(L) /\ n # 0
          BY <3>3, <1>2
        <4> QED
          BY <4>1, <3>3, <1>6
      <3> QED
        BY <3>1, <3>2, <3>3, <1>2, <1>3
    <2>2. closed = [n \in 0..Len(m) |-> closed[n]]
      BY <1>3
    <2> HIDE DEF closed
    <2> QED
      BY <2>1, <2>2
  <1>8. Rule(placed)
    <2> HIDE DEF Rule, closed
    <2> QED
      BY <1>7
  <1> HIDE DEF placed
  <1>9. \A n \in 0..Len(m) : placed[n] = closed[n]
    <2> SUFFICES ASSUME {n \in 0..Len(m) : placed[n] # closed[n]} # {} PROVE FALSE
      OBVIOUS
    <2> DEFINE D == {n \in 0..Len(m) : placed[n] # closed[n]}
    <2>0. Len(m) \in Nat
      BY <1>3
    <2>1. D \subseteq Nat /\ D # {}
      <3> HIDE DEF closed
      <3> QED
        BY <2>0
    <2>2. PICK n \in D : \A x \in D : n <= x
      BY <2>1, LeastExists
    <2> HIDE DEF closed
    <2>3. n \in 0..Len(m) /\ placed[n] # closed[n]
      BY <2>2
    <2>4. /\ placed[n] = IF n = 0 THEN start ELSE Placed(placed[n - 1], m[n])
          /\ closed[n] = IF n = 0 THEN start ELSE Placed(closed[n - 1], m[n])
      BY <1>7, <1>8, <2>3
    <2>5. n # 0
      BY <2>3, <2>4
    <2>6. n - 1 \in 0..Len(m) /\ n - 1 \notin D
      BY <2>2, <2>3, <2>5, <1>2, <1>3
    <2>7. placed[n - 1] = closed[n - 1]
      BY <2>6
    <2> QED
      BY <2>3, <2>4, <2>5, <2>7
  <1>10. placed[Len(m)] = last
    <2>0. Len(m) = L + 1 /\ L \in Nat
      BY <1>2, <1>3
    <2>1. L + 1 \in 0..L + 1 /\ ~ (L + 1 <= L) /\ Len(m) = L + 1 /\ Len(m) \in 0..Len(m)
      <3> HIDE DEF L
      <3> QED
        BY <2>0
    <2>2. closed[L + 1] = last
      BY <2>1
    <2> HIDE DEF closed
    <2> QED
      BY <2>1, <2>2, <1>9
  <1> QED
    BY <1>1, <1>10 DEF last, m, A

-----------------------------------------------------------------------------
(* match_parent, of a conversation whose turns were all stored.               *)

\* A prompt of one token in front of a conversation is never the mark of an
\* ambiguous one.
LEMMA TapeIsLong ==
    ASSUME NEW t \in Seq(Message), Len(t) > 0
    PROVE  <<Prompt>> \o t # <<"ambiguous">> /\ <<Prompt>> \o t \in Seq(Message \cup {Prompt})
  <1>1. PICK S : S = Message \cup {Prompt}
    OBVIOUS
  <1>2. t \in Seq(S) /\ <<Prompt>> \in Seq(S)
    BY <1>1
  <1>3. <<Prompt>> \o t \in Seq(S) /\ Len(<<Prompt>> \o t) = 1 + Len(t)
    BY <1>2
  <1>4. Len(<<"ambiguous">>) = 1
    OBVIOUS
  <1> QED
    BY <1>1, <1>3, <1>4

LEMMA StoredParts ==
    ASSUME NEW m, NEW t
    PROVE  /\ StoredOf(m, t).messages = m /\ StoredOf(m, t).tape = <<Prompt>> \o t
           /\ StoredOf(m, t).segments = AnswersOf(t)
  BY DEF StoredOf, Snapshot

\* Whoever supplies all the reasoning is only given rows of that conversation.
LEMMA KeptIsTold ==
    ASSUME HistoryAssumption, NEW P, Whole(P), NEW t, Whole(t), NEW m, Shown(m, t),
           HistoryKey(m) = HistoryKey(P), Honors(P, m)
    PROVE  t = P
  <1>1. /\ P \in Seq(Message) /\ t \in Seq(Message) /\ m \in Seq(Message) /\ Len(m) = Len(t)
        /\ Len(P) \in Nat /\ Len(m) \in Nat
    BY DEF Whole, Shown
  <1>2. HistoryKey(m) = [i \in 1..Len(m) |-> <<m[i].role, m[i].text>>]
        /\ HistoryKey(P) = [i \in 1..Len(P) |-> <<P[i].role, P[i].text>>]
    BY <1>1 DEF HistoryKey
  <1>3. DOMAIN HistoryKey(m) = 1..Len(m) /\ DOMAIN HistoryKey(P) = 1..Len(P)
    BY <1>2
  <1>4. Len(m) = Len(P)
    BY <1>1, <1>3
  <1>5. ASSUME NEW i \in 1..Len(P)
        PROVE  t[i] = P[i]
    <2>1. <<m[i].role, m[i].text>> = <<P[i].role, P[i].text>>
      BY <1>2, <1>4
    <2>2. m[i].role = P[i].role /\ m[i].text = P[i].text
      BY <2>1
    <2>3. P[i].thought \in {None, m[i].thought}
      BY <1>1 DEF Honors
    <2>4. /\ m[i].role = t[i].role /\ m[i].text = t[i].text /\ m[i].thought \in {None, t[i].thought}
      BY <1>1, <1>4 DEF Shown
    <2>5. t[i].thought = P[i].thought
      <3>1. CASE i % 2 = 1
        BY <3>1, <1>1, <1>4 DEF Whole
      <3>2. CASE ~ (i % 2 = 1)
        BY <3>2, <1>1, <1>4, <2>3, <2>4 DEF Whole
      <3> QED
        BY <3>1, <3>2
    <2> QED
      <3>1. P[i] \in Message /\ t[i] \in Message
        <4>1. i \in 1..Len(t)
          BY <1>1, <1>4
        <4> QED
          BY <4>1, <1>1
      <3>2. t[i].role = P[i].role /\ t[i].text = P[i].text
        BY <2>2, <2>4
      <3> QED
        BY <3>1, <3>2, <2>5, SameMessage
  <1> QED
    BY <1>1, <1>4, <1>5, SameSequence

\* The newest turn of a client is a row that holds what it resends.
LEMMA OwnCandidate ==
    ASSUME HistoryAssumption, HistoryInv, NEW c \in Clients, own[c] # <<>>
    PROVE  \E n \in Candidates(Resent(c)) : rows[n].tape = <<Prompt>> \o past[c]
                                            /\ rows[n].segments = AnswersOf(past[c])
                                            /\ rows[n] = own[c][Len(own[c])]
  <1>1. /\ Whole(past[c]) /\ own[c] \in Seq(Snapshots) /\ Len(past[c]) = 2 * Len(own[c])
        /\ \A k \in 1..Len(own[c]) : OwnRow(c, k)
    BY DEF HistoryInv, OwnRows
  <1>2. PICK k \in Nat : k = Len(own[c]) /\ k >= 1
    BY <1>1
  <1>3. SubSeq(past[c], 1, 2 * k) = past[c]
    BY <1>1, <1>2 DEF Whole
  <1>4. OwnRow(c, k)
    BY <1>1, <1>2
  <1>5. PICK n, m :
          /\ n \in 1..Len(rows)
          /\ own[c][k] = rows[n] /\ rows[n] = StoredOf(m, past[c])
          /\ Shown(m, past[c]) /\ (c \in Keepers => m = past[c])
    BY <1>3, <1>4 DEF OwnRow
  <1>6. Shown(Resent(c), past[c]) /\ (c \in Keepers => Resent(c) = past[c])
    BY <1>1, ResentIsShown
  <1>7. PICK R : R = Resent(c)
    OBVIOUS
  <1>8. PICK P : P = past[c]
    OBVIOUS
  <1>9. /\ m \in Seq(Message) /\ Len(m) = Len(P) /\ R \in Seq(Message) /\ Len(R) = Len(P) /\ Len(P) \in Nat
        /\ \A i \in 1..Len(P) : m[i].role = R[i].role /\ m[i].text = R[i].text
    BY <1>1, <1>5, <1>6, <1>7, <1>8 DEF Shown, Whole
  <1>10. HistoryKey(m) = HistoryKey(R)
    BY <1>9 DEF HistoryKey
  <1>11. Honors(R, m)
    <2> SUFFICES ASSUME NEW i \in 1..Len(P) PROVE R[i].thought \in {None, m[i].thought}
      BY <1>9 DEF Honors
    <2>1. CASE c \in Keepers
      BY <2>1, <1>5, <1>6, <1>7, <1>8
    <2>2. CASE c \notin Keepers
      <3>1. R = [j \in DOMAIN P |-> [P[j] EXCEPT !.thought = None]]
        BY <2>2, <1>7, <1>8 DEF Resent
      <3>2. DOMAIN P = 1..Len(P) /\ P[i] \in Message
        BY <1>1, <1>8 DEF Whole
      <3>3. PICK r, x, h : P[i] = [role |-> r, text |-> x, thought |-> h]
        BY <3>2, MessageParts
      <3> QED
        BY <3>1, <3>2, <3>3
    <2> QED
      BY <2>1, <2>2
  <1>12. n \in Candidates(R)
    <2>1. rows[n].messages = m
      BY <1>5, StoredParts
    <2>2. n \in DOMAIN rows
      BY <1>5 DEF HistoryInv, HistoryTypes
    <2> QED
      BY <2>1, <2>2, <1>10, <1>11 DEF Candidates
  <1> QED
    <2>1. rows[n].tape = <<Prompt>> \o past[c] /\ rows[n].segments = AnswersOf(past[c])
      BY SMTT(30), <1>5, StoredParts
    <2> QED
      BY <2>1, <1>2, <1>5, <1>7, <1>12

LEMMA MatchOwn ==
    ASSUME HistoryAssumption, HistoryInv, NEW c \in Clients, NEW q \in Questions
    PROVE  Continues(c, MatchParent(Append(Resent(c), UserSays(q))))
  <1>1. PICK P : P = past[c]
    OBVIOUS
  <1>2. PICK R : R = Resent(c)
    OBVIOUS
  <1>3. PICK m : m = Append(R, UserSays(q))
    OBVIOUS
  <1>4. Whole(P) /\ own[c] \in Seq(Snapshots) /\ Len(P) = 2 * Len(own[c]) /\ Shown(R, P) /\ (c \in Keepers => R = P)
    BY <1>1, <1>2, ResentIsShown DEF HistoryInv, OwnRows
  <1>5. PICK L \in Nat : L = Len(P) /\ L = 2 * Len(own[c])
    BY <1>4
  <1>6. /\ R \in Seq(Message) /\ Len(R) = L /\ P \in Seq(Message)
        /\ \A i \in 1..L : R[i].role = P[i].role
    BY <1>4, <1>5 DEF Shown, Whole
  <1>7. /\ m \in Seq(Message) /\ Len(m) = L + 1 /\ DOMAIN m = 1..L + 1
        /\ m[L + 1].role = "user" /\ \A i \in 1..L : m[i] = R[i]
    <2>1. PICK u \in Message : u = UserSays(q) /\ u.role = "user"
      BY QuestionIsMessage
    <2>2. m = Append(R, u)
      BY <2>1, <1>3
    <2>3. /\ m \in Seq(Message) /\ Len(m) = L + 1 /\ DOMAIN m = 1..L + 1
          /\ m[L + 1] = u /\ \A i \in 1..L : m[i] = R[i]
      BY <2>2, <1>5, <1>6
    <2> QED
      BY <2>1, <2>3
  <1>8. Matched(m) \subseteq 1..L
    <2> SUFFICES ASSUME NEW i \in Matched(m) PROVE i \in 1..L
      OBVIOUS
    <2>1. i \in 1..L + 1 /\ m[i].role = "assistant"
      BY <1>7 DEF Matched
    <2>2. i # L + 1
      BY <2>1, <1>7
    <2> QED
      BY <2>1, <2>2
  <1>9. CASE own[c] = <<>>
    <2>1. L = 0
      BY <1>9, <1>5
    <2>2. Matched(m) = {}
      BY <2>1, <1>8
    <2>3. MatchParent(m) = NoParent
      BY <2>2 DEF MatchParent
    <2>4. NoParent.segments = <<>> /\ NoParent # Ambiguous
      BY DEF NoParent, Ambiguous, Snapshot
    <2>5. AnswersOf(P) = <<>>
      BY <2>1, <1>4, <1>5, AnswersTyped
    <2> QED
      BY <2>3, <2>4, <2>5, <1>9, <1>1, <1>2, <1>3 DEF Continues
  <1>10. CASE own[c] # <<>>
    <2>1. PICK o \in Candidates(R) : rows[o].tape = <<Prompt>> \o P /\ rows[o].segments = AnswersOf(P)
      BY <1>10, <1>1, <1>2, OwnCandidate
    <2>2. L >= 2
      BY <1>10, <1>4, <1>5
    <2>3. L \in Matched(m)
      <3>1. SubSeq(m, 1, L) = R
        <4>1. SubSeq(m, 1, L) \in Seq(Message) /\ Len(SubSeq(m, 1, L)) = L
              /\ \A i \in 1..L : SubSeq(m, 1, L)[i] = m[i]
          BY <1>7, PrefixOf
        <4> QED
          BY <4>1, <1>6, <1>7, SameSequence
      <3>2. P[L].role = "assistant"
        BY <2>2, <1>4, <1>5, HalfOf DEF Whole
      <3>3. m[L].role = "assistant" /\ L \in DOMAIN m
        BY <3>2, <2>2, <1>6, <1>7
      <3> QED
        BY <3>1, <3>3, <2>1 DEF Matched
    <2>4. Max(Matched(m)) = L
      <3>1. Matched(m) \subseteq Nat /\ Matched(m) # {} /\ \A i \in Matched(m) : i <= L
        BY <1>8, <2>3
      <3>2. Max(Matched(m)) \in Matched(m) /\ \A i \in Matched(m) : i <= Max(Matched(m))
        BY <3>1, MaxIsGreatest
      <3>3. Max(Matched(m)) <= L /\ L <= Max(Matched(m)) /\ Max(Matched(m)) \in Nat
        BY <3>1, <3>2, <2>3
      <3> QED
        BY <3>3
    <2>5. SubSeq(m, 1, Max(Matched(m))) = R
      <3>1. SubSeq(m, 1, L) \in Seq(Message) /\ Len(SubSeq(m, 1, L)) = L
            /\ \A i \in 1..L : SubSeq(m, 1, L)[i] = m[i]
        BY <1>7, PrefixOf
      <3> QED
        BY <3>1, <2>4, <1>6, <1>7, SameSequence
    <2> DEFINE found == Candidates(R)
    <2>6. found \subseteq 1..Len(rows) /\ Len(rows) \in Nat
      BY DEF HistoryInv, HistoryTypes, Candidates
    <2>7. o \in found
      BY <2>1
    <2>8. Max(found) \in found
      <3>1. found \subseteq Nat /\ found # {} /\ \A n \in found : n <= Len(rows)
        BY <2>6, <2>7
      <3> HIDE DEF found
      <3> QED
        BY <3>1, <2>6, MaxIsGreatest
    <2>9. MatchParent(m) = IF \E n \in found : rows[n].tape # rows[Max(found)].tape
                                               \/ rows[n].segments # rows[Max(found)].segments
                           THEN Ambiguous ELSE rows[Max(found)]
      BY <2>3, <2>5 DEF MatchParent
    <2>10. ASSUME NEW n \in found
           PROVE  /\ rows[n].tape # <<"ambiguous">>
                  /\ c \in Keepers => rows[n].tape = <<Prompt>> \o P /\ rows[n].segments = AnswersOf(P)
      <3>1. n \in 1..Len(rows) /\ HistoryKey(rows[n].messages) = HistoryKey(R) /\ Honors(R, rows[n].messages)
        BY <2>6 DEF Candidates
      <3>2. PICK x, t : Whole(t) /\ Shown(x, t) /\ rows[n] = StoredOf(x, t)
        BY <3>1 DEF HistoryInv, RowsAreWhole
      <3>3. rows[n].messages = x /\ rows[n].tape = <<Prompt>> \o t /\ rows[n].segments = AnswersOf(t)
        BY <3>2, StoredParts
      <3>4. Len(t) > 0 /\ t \in Seq(Message)
        <4>1. x \in Seq(Message) /\ Len(x) = Len(t) /\ t \in Seq(Message)
          BY <3>2 DEF Shown, Whole
        <4>2. HistoryKey(x) = [i \in 1..Len(x) |-> <<x[i].role, x[i].text>>]
              /\ HistoryKey(R) = [i \in 1..Len(R) |-> <<R[i].role, R[i].text>>]
          BY <4>1, <1>6 DEF HistoryKey
        <4>3. 1..Len(x) = 1..Len(R)
          BY <4>2, <3>1, <3>3
        <4>4. 1 \in 1..Len(R)
          BY <1>6, <2>2
        <4> QED
          BY <4>1, <4>3, <4>4
      <3>5. rows[n].tape # <<"ambiguous">>
        BY <3>3, <3>4, TapeIsLong
      <3>6. c \in Keepers => t = P
        BY <3>1, <3>2, <3>3, <1>4, KeptIsTold
      <3> QED
        BY <3>3, <3>5, <3>6
    <2> HIDE DEF found
    <2>11. Ambiguous.tape = <<"ambiguous">>
      BY DEF Ambiguous, Snapshot
    <2>12. CASE \E n \in found : rows[n].tape # rows[Max(found)].tape \/ rows[n].segments # rows[Max(found)].segments
      <3>1. c \notin Keepers
        BY <2>12, <2>8, <2>10
      <3> QED
        BY <3>1, <2>9, <2>12, <1>2, <1>3 DEF Continues
    <2>13. CASE ~ \E n \in found : rows[n].tape # rows[Max(found)].tape \/ rows[n].segments # rows[Max(found)].segments
      <3>1. MatchParent(m) = rows[Max(found)]
        BY <2>9, <2>13
      <3>2. MatchParent(m).tape = <<Prompt>> \o P /\ MatchParent(m).segments = AnswersOf(P)
        BY <3>1, <2>1, <2>7, <2>13
      <3>3. MatchParent(m) # Ambiguous
        BY <3>1, <2>8, <2>10, <2>11
      <3> QED
        BY <3>2, <3>3, <1>1, <1>2, <1>3 DEF Continues
    <2> QED
      BY <2>12, <2>13
  <1> QED
    BY <1>9, <1>10

-----------------------------------------------------------------------------
(* The steps keep the invariant.                                              *)

LEMMA HistoryInvInit ==
    ASSUME HistoryAssumption, HistoryInit
    PROVE  HistoryInv
  <1>1. HistoryTypes
    BY DEF HistoryInit, HistoryTypes
  <1>2. RowsAreWhole
    BY DEF HistoryInit, RowsAreWhole
  <1>3. OwnRows
    <2>1. \A c \in Clients : past[c] = <<>> /\ own[c] = <<>>
      BY DEF HistoryInit
    <2>2. Whole(<<>>)
      BY DEF Whole
    <2>3. <<>> \in Seq(Snapshots) /\ Len(<<>>) = 0 /\ 1..0 = {}
      OBVIOUS
    <2> SUFFICES ASSUME NEW c \in Clients
                 PROVE  /\ Whole(past[c]) /\ own[c] \in Seq(Snapshots) /\ Len(past[c]) = 2 * Len(own[c])
                        /\ \A k \in 1..Len(own[c]) : OwnRow(c, k)
      BY DEF OwnRows
    <2>4. past[c] = <<>> /\ own[c] = <<>> /\ Len(own[c]) = 0 /\ Len(past[c]) = 0
      BY <2>1, <2>3
    <2> QED
      BY <2>2, <2>3, <2>4
  <1>4. Asked
    BY DEF HistoryInit, Asked
  <1> QED
    BY <1>1, <1>2, <1>3, <1>4 DEF HistoryInv

LEMMA AskKeeps ==
    ASSUME HistoryAssumption, HistoryInv, NEW c \in Clients, NEW q \in Questions, Ask(c, q)
    PROVE  HistoryInv'
  <1>1. /\ asking' = [asking EXCEPT ![c] = Append(Resent(c), UserSays(q))]
        /\ parent' = [parent EXCEPT ![c] = MatchParent(asking'[c])]
        /\ rows' = rows /\ past' = past /\ own' = own
    BY DEF Ask
  <1>2. /\ asking = [d \in Clients |-> asking[d]] /\ parent = [d \in Clients |-> parent[d]]
    BY DEF HistoryInv, HistoryTypes
  <1>3. asking'[c] = Append(Resent(c), UserSays(q))
    BY <1>1, <1>2
  <1>4. parent'[c] = MatchParent(Append(Resent(c), UserSays(q)))
    BY <1>1, <1>2, <1>3
  <1>5. Continues(c, parent'[c])
    BY <1>4, MatchOwn
  <1>6. \A d \in Clients \ {c} : asking'[d] = asking[d] /\ parent'[d] = parent[d]
    BY <1>1, <1>2
  <1>7. Resent(c)' = Resent(c) /\ \A d : Resent(d)' = Resent(d)
    BY <1>1 DEF Resent
  <1>8. \A d, p : Continues(d, p)' <=> Continues(d, p)
    BY <1>1 DEF Continues
  <1>9. Asked'
    <2> SUFFICES ASSUME NEW d \in Clients
                 PROVE  \/ asking'[d] = <<>> /\ parent'[d] = NoParent
                        \/ \E x \in Questions : asking'[d] = Append(Resent(d)', UserSays(x)) /\ Continues(d, parent[d])'
      BY DEF Asked
    <2>1. CASE d = c
      BY <2>1, <1>1, <1>3, <1>5, <1>7 DEF Continues
    <2>2. CASE d # c
      <3>1. \/ asking[d] = <<>> /\ parent[d] = NoParent
            \/ \E x \in Questions : asking[d] = Append(Resent(d), UserSays(x)) /\ Continues(d, parent[d])
        BY DEF HistoryInv, Asked
      <3>2. asking'[d] = asking[d] /\ parent'[d] = parent[d]
        BY <2>2, <1>6
      <3>3. Continues(d, parent[d])' <=> Continues(d, parent[d])
        BY <3>2, <1>1 DEF Continues
      <3> QED
        BY <3>1, <3>2, <3>3, <1>7
    <2> QED
      BY <2>1, <2>2
  <1>10. HistoryTypes'
    BY <1>1, <1>2 DEF HistoryInv, HistoryTypes
  <1>11. RowsAreWhole'
    BY <1>1 DEF HistoryInv, RowsAreWhole
  <1>12. OwnRows'
    <2>1. \A d, k : OwnRow(d, k)' <=> OwnRow(d, k)
      BY <1>1 DEF OwnRow
    <2>2. OwnRows
      BY DEF HistoryInv
    <2> QED
      BY Zenon, <2>1, <2>2, <1>1 DEF OwnRows
  <1> QED
    BY <1>9, <1>10, <1>11, <1>12 DEF HistoryInv

\* A conversation with one more turn.
LEMMA OneTurnMore ==
    ASSUME NEW P, Whole(P), NEW q \in Questions, NEW a \in Replies, NEW h \in Thoughts, HistoryAssumption
    PROVE  LET T == Append(Append(P, UserSays(q)), AssistantSays(a, h)) IN
           /\ Whole(T) /\ Len(T) = Len(P) + 2 /\ AnswersOf(T) = Append(AnswersOf(P), AssistantSays(a, h))
           /\ \A n \in 0..Len(P) : SubSeq(T, 1, n) = SubSeq(P, 1, n)
  <1>1. PICK u \in Message : u = UserSays(q) /\ u.role = "user" /\ u.thought = None
    BY QuestionIsMessage
  <1>2. PICK r \in Message : r = AssistantSays(a, h) /\ r.role = "assistant" /\ r.thought # None
    BY SaidIsMessage DEF HistoryAssumption
  <1>3. PICK T : T = Append(Append(P, u), r)
    OBVIOUS
  <1>4. PICK k \in Nat : Len(P) = 2 * k /\ Len(P) \div 2 = k /\ P \in Seq(Message)
    BY AnswersTyped DEF Whole
  <1>5. /\ T \in Seq(Message) /\ Len(T) = 2 * k + 2 /\ \A i \in 1..2 * k : T[i] = P[i]
        /\ T[2 * k + 1] = u /\ T[2 * k + 2] = r
    BY <1>3, <1>4
  <1>6. Whole(T)
    <2>1. Len(T) % 2 = 0
      BY <1>5
    <2>2. ASSUME NEW i \in 1..Len(T)
          PROVE  IF i % 2 = 1 THEN T[i].role = "user" /\ T[i].thought = None
                 ELSE T[i].role = "assistant" /\ T[i].thought # None
      <3>1. CASE i \in 1..2 * k
        BY <3>1, <1>4, <1>5 DEF Whole
      <3>2. CASE i = 2 * k + 1
        <4>1. i % 2 = 1
          BY <3>2
        <4> QED
          BY <4>1, <3>2, <1>1, <1>5
      <3>3. CASE i = 2 * k + 2
        <4>1. ~ (i % 2 = 1)
          BY <3>3
        <4> QED
          BY <4>1, <3>3, <1>2, <1>5
      <3> QED
        BY <3>1, <3>2, <3>3, <1>5
    <2> QED
      BY <2>1, <2>2, <1>5 DEF Whole
  <1>7. AnswersOf(T) = Append(AnswersOf(P), r)
    <2>1. AnswersOf(T) \in Seq(Message) /\ Len(AnswersOf(T)) = Len(T) \div 2
          /\ \A j \in 1..Len(T) \div 2 : AnswersOf(T)[j] = T[2 * j]
      BY <1>6, AnswersTyped
    <2>2. Len(T) \div 2 = k + 1
      BY <1>5
    <2>3. AnswersOf(P) \in Seq(Message) /\ Len(AnswersOf(P)) = k
          /\ \A j \in 1..k : AnswersOf(P)[j] = P[2 * j]
      BY <1>4, AnswersTyped
    <2>4. PICK A : A = Append(AnswersOf(P), r)
      OBVIOUS
    <2>5. A \in Seq(Message) /\ Len(A) = k + 1 /\ A[k + 1] = r /\ \A j \in 1..k : A[j] = AnswersOf(P)[j]
      BY <2>3, <2>4
    <2>6. ASSUME NEW j \in 1..k + 1
          PROVE  AnswersOf(T)[j] = A[j]
      <3>1. AnswersOf(T)[j] = T[2 * j]
        BY <2>1, <2>2
      <3>2. CASE j = k + 1
        BY <3>1, <3>2, <2>5, <1>5
      <3>3. CASE j \in 1..k
        <4>1. PICK i \in Nat : i = 2 * j /\ i \in 1..2 * k
          BY <3>3, <1>4
        <4>2. T[i] = P[i]
          BY <4>1, <1>5
        <4>3. A[j] = P[i]
          BY <3>3, <4>1, <2>3, <2>5
        <4> QED
          BY <3>1, <4>1, <4>2, <4>3
      <3> QED
        BY <3>2, <3>3
    <2> QED
      BY <2>1, <2>2, <2>4, <2>5, <2>6, SameSequence
  <1>8. ASSUME NEW n \in 0..Len(P)
        PROVE  SubSeq(T, 1, n) = SubSeq(P, 1, n)
    <2>1. /\ SubSeq(T, 1, n) \in Seq(Message) /\ Len(SubSeq(T, 1, n)) = n /\ \A i \in 1..n : SubSeq(T, 1, n)[i] = T[i]
      BY <1>4, <1>5, PrefixOf
    <2>2. /\ SubSeq(P, 1, n) \in Seq(Message) /\ Len(SubSeq(P, 1, n)) = n /\ \A i \in 1..n : SubSeq(P, 1, n)[i] = P[i]
      BY <1>4, PrefixOf
    <2>3. \A i \in 1..n : T[i] = P[i]
      BY <1>4, <1>5
    <2> QED
      BY <2>1, <2>2, <2>3, SameSequence
  <1> QED
    BY <1>1, <1>2, <1>3, <1>4, <1>5, <1>6, <1>7, <1>8

\* What was shown of it, with the question and the answer behind.
LEMMA ShownMore ==
    ASSUME NEW P, Whole(P), NEW R, Shown(R, P), NEW u \in Message, NEW r \in Message
    PROVE  Shown(Append(Append(R, u), r), Append(Append(P, u), r))
  <1>1. P \in Seq(Message) /\ R \in Seq(Message) /\ Len(R) = Len(P) /\ Len(P) \in Nat
    BY DEF Whole, Shown
  <1>2. PICK S, T : S = Append(Append(R, u), r) /\ T = Append(Append(P, u), r)
    OBVIOUS
  <1>3. /\ S \in Seq(Message) /\ T \in Seq(Message) /\ Len(S) = Len(P) + 2 /\ Len(T) = Len(P) + 2
        /\ \A i \in 1..Len(P) : S[i] = R[i] /\ T[i] = P[i]
        /\ S[Len(P) + 1] = u /\ T[Len(P) + 1] = u /\ S[Len(P) + 2] = r /\ T[Len(P) + 2] = r
    BY <1>1, <1>2
  <1>4. ASSUME NEW i \in 1..Len(T)
        PROVE  S[i].role = T[i].role /\ S[i].text = T[i].text /\ S[i].thought \in {None, T[i].thought}
    <2>1. CASE i \in 1..Len(P)
      BY <2>1, <1>1, <1>3 DEF Shown
    <2>2. CASE i \in {Len(P) + 1, Len(P) + 2}
      BY <2>2, <1>3
    <2> QED
      BY <2>1, <2>2, <1>1, <1>3
  <1>5. Shown(S, T)
    BY <1>3, <1>4 DEF Shown
  <1> QED
    BY <1>2, <1>5

LEMMA GenerateKeeps ==
    ASSUME HistoryAssumption, HistoryInv, Endings = {"completed"}, \A x, y \in Clients : SystemOf[x] = SystemOf[y],
           NEW c \in Clients, NEW a \in Replies, NEW h \in Thoughts, NEW e \in Endings, Generate(c, a, h, e)
    PROVE  HistoryInv'
  <1> DEFINE answer   == AssistantSays(a, h)
             rendered == Render(asking[c], parent[c].segments)
             snapshot == Snapshot(Append(asking[c], answer),
                                  <<SystemOf[c]>> \o Append(rendered.prompt, answer),
                                  Append(rendered.retained, answer))
  <1>1. /\ rows' = Append(rows, snapshot) /\ own' = [own EXCEPT ![c] = Append(@, snapshot)]
        /\ past' = [past EXCEPT ![c] = Append(Append(@, Last(asking[c])), answer)]
        /\ asking' = [asking EXCEPT ![c] = <<>>] /\ parent' = [parent EXCEPT ![c] = NoParent]
    BY DEF Generate
  <1>2. asking[c] # <<>> /\ parent[c] # Ambiguous
    BY DEF Generate
  <1>3. PICK q \in Questions : asking[c] = Append(Resent(c), UserSays(q)) /\ Continues(c, parent[c])
    BY <1>2 DEF HistoryInv, Asked
  <1>4. PICK P : P = past[c]
    OBVIOUS
  <1>5. PICK R : R = Resent(c)
    OBVIOUS
  <1>6. /\ Whole(P) /\ own[c] \in Seq(Snapshots) /\ Len(P) = 2 * Len(own[c]) /\ Shown(R, P)
        /\ (c \in Keepers => R = P)
    BY <1>4, <1>5, ResentIsShown DEF HistoryInv, OwnRows
  <1>7. PICK u \in Message : u = UserSays(q)
    BY QuestionIsMessage
  <1>8. PICK r \in Message : r = answer
    BY QuestionIsMessage, SaidIsMessage
  <1>9. PICK T : T = Append(Append(P, u), r)
    OBVIOUS
  <1>10. PICK m : m = Append(Append(R, u), r)
    OBVIOUS
  <1>11. Whole(T) /\ Shown(m, T) /\ (c \in Keepers => m = T)
    BY <1>6, <1>7, <1>8, <1>9, <1>10, OneTurnMore, ShownMore
  <1>12. /\ Len(T) = Len(P) + 2 /\ AnswersOf(T) = Append(AnswersOf(P), r)
         /\ \A n \in 0..Len(P) : SubSeq(T, 1, n) = SubSeq(P, 1, n)
    BY ZenonT(30), <1>6, <1>7, <1>8, <1>9, OneTurnMore
  <1>13. asking[c] = Append(R, u) /\ parent[c].segments = AnswersOf(P)
    BY <1>2, <1>3, <1>4, <1>5, <1>7 DEF Continues
  <1>14. rendered.prompt = Append(P, u) /\ rendered.retained = AnswersOf(P)
    BY <1>6, <1>7, <1>13, RenderOwn
  <1>15. snapshot = StoredOf(m, T)
    <2>1. SystemOf[c] = Prompt
      BY DEF Prompt
    <2> QED
      BY <2>1, <1>8, <1>9, <1>10, <1>12, <1>13, <1>14 DEF StoredOf
  <1>16. PICK s : s = snapshot
    OBVIOUS
  <1> HIDE DEF answer, rendered, snapshot
  <1>17. s = StoredOf(m, T) /\ s \in Snapshots
    <2>1. T \in Seq(Message) /\ m \in Seq(Message) /\ AnswersOf(T) \in Seq(Message)
      BY <1>11, AnswersTyped DEF Whole, Shown
    <2>2. T \in Seq(Message \cup {Prompt}) /\ <<Prompt>> \in Seq(Message \cup {Prompt})
      BY <2>1
    <2>3. <<Prompt>> \o T \in Seq(Message \cup {Prompt})
      BY <2>2
    <2> QED
      BY <2>1, <2>3, <1>15, <1>16 DEF StoredOf, Snapshot, Snapshots
  <1>18. Last(asking[c]) = u
    <2>1. R \in Seq(Message)
      BY <1>6 DEF Shown
    <2> QED
      BY <2>1, <1>13 DEF Last
  <1>19. /\ rows' = Append(rows, s) /\ own' = [own EXCEPT ![c] = Append(@, s)]
         /\ past' = [past EXCEPT ![c] = T]
    BY <1>1, <1>4, <1>8, <1>9, <1>16, <1>18
  <1>20. /\ rows \in Seq(Snapshots) /\ past = [d \in Clients |-> past[d]] /\ own = [d \in Clients |-> own[d]]
         /\ asking = [d \in Clients |-> asking[d]] /\ parent = [d \in Clients |-> parent[d]]
    BY DEF HistoryInv, HistoryTypes
  <1>21. PICK N \in Nat : N = Len(rows)
    BY <1>20
  <1>22. /\ rows' \in Seq(Snapshots) /\ Len(rows') = N + 1 /\ rows'[N + 1] = s /\ \A n \in 1..N : rows'[n] = rows[n]
    BY <1>17, <1>19, <1>20, <1>21
  <1>23. HistoryTypes'
    BY <1>1, <1>19, <1>20, <1>22 DEF HistoryTypes
  <1>24. RowsAreWhole'
    <2> SUFFICES ASSUME NEW n \in 1..N + 1
                 PROVE  \E x, t : Whole(t) /\ Shown(x, t) /\ rows'[n] = StoredOf(x, t)
      BY <1>22 DEF RowsAreWhole
    <2>1. CASE n = N + 1
      BY <2>1, <1>11, <1>17, <1>22
    <2>2. CASE n \in 1..N
      <3>1. rows'[n] = rows[n] /\ n \in 1..Len(rows)
        BY <2>2, <1>21, <1>22
      <3> QED
        BY <3>1 DEF HistoryInv, RowsAreWhole
    <2> QED
      BY <2>1, <2>2
  <1>25. ASSUME NEW d \in Clients
         PROVE  /\ Whole(past'[d]) /\ own'[d] \in Seq(Snapshots) /\ Len(past'[d]) = 2 * Len(own'[d])
                /\ \A k \in 1..Len(own'[d]) : OwnRow(d, k)'
    <2>1. /\ Whole(past[d]) /\ own[d] \in Seq(Snapshots) /\ Len(past[d]) = 2 * Len(own[d])
          /\ \A k \in 1..Len(own[d]) : OwnRow(d, k)
      BY DEF HistoryInv, OwnRows
    <2>2. CASE d # c
      <3>1. past'[d] = past[d] /\ own'[d] = own[d]
        BY <2>2, <1>19, <1>20
      <3>2. ASSUME NEW k \in 1..Len(own[d]) PROVE OwnRow(d, k)'
        <4>1. PICK n, x :
                /\ n \in 1..Len(rows)
                /\ own[d][k] = rows[n] /\ rows[n] = StoredOf(x, SubSeq(past[d], 1, 2 * k))
                /\ Shown(x, SubSeq(past[d], 1, 2 * k)) /\ (d \in Keepers => x = SubSeq(past[d], 1, 2 * k))
          BY <2>1 DEF OwnRow
        <4>2. n \in 1..Len(rows') /\ rows'[n] = rows[n]
          BY <4>1, <1>21, <1>22
        <4> QED
          BY <3>1, <4>1, <4>2 DEF OwnRow
      <3> QED
        BY <2>1, <3>1, <3>2
    <2>3. CASE d = c
      <3>1. past'[d] = T /\ own'[d] = Append(own[c], s)
        BY <2>3, <1>19, <1>20
      <3>2. PICK K \in Nat : K = Len(own[c]) /\ Len(P) = 2 * K
        BY <1>6
      <3>3. /\ own'[d] \in Seq(Snapshots) /\ Len(own'[d]) = K + 1 /\ own'[d][K + 1] = s
            /\ \A k \in 1..K : own'[d][k] = own[c][k]
        BY <3>1, <3>2, <1>6, <1>17
      <3>4. ASSUME NEW k \in 1..K + 1 PROVE OwnRow(d, k)'
        <4>1. CASE k \in 1..K
          <5>1. PICK n, x :
                  /\ n \in 1..Len(rows)
                  /\ own[c][k] = rows[n] /\ rows[n] = StoredOf(x, SubSeq(P, 1, 2 * k))
                  /\ Shown(x, SubSeq(P, 1, 2 * k)) /\ (c \in Keepers => x = SubSeq(P, 1, 2 * k))
            BY <4>1, <2>1, <2>3, <3>2, <1>4 DEF OwnRow
          <5>2. n \in 1..Len(rows') /\ rows'[n] = rows[n]
            BY <5>1, <1>21, <1>22
          <5>3. SubSeq(T, 1, 2 * k) = SubSeq(P, 1, 2 * k)
            <6>1. 2 * k \in 0..Len(P)
              BY <4>1, <3>2
            <6> QED
              BY <6>1, <1>12
          <5>4. own'[d][k] = own[c][k]
            BY <4>1, <3>3
          <5> QED
            BY <2>3, <3>1, <5>1, <5>2, <5>3, <5>4 DEF OwnRow
        <4>2. CASE k = K + 1
          <5>1. SubSeq(T, 1, 2 * k) = T
            <6>1. 2 * k = Len(T) /\ T \in Seq(Message)
              BY <4>2, <3>2, <1>11, <1>12 DEF Whole
            <6> QED
              BY <6>1
          <5>2. N + 1 \in 1..Len(rows') /\ rows'[N + 1] = s /\ own'[d][k] = s
            BY <4>2, <3>3, <1>22
          <5> QED
            BY ZenonT(30), <2>3, <3>1, <5>1, <5>2, <1>11, <1>17 DEF OwnRow
        <4> QED
          BY <4>1, <4>2
      <3>5. Len(past'[d]) = 2 * Len(own'[d])
        BY <3>1, <3>2, <3>3, <1>12
      <3> QED
        BY <3>1, <3>3, <3>4, <3>5, <1>11
    <2> QED
      BY <2>2, <2>3
  <1>26. OwnRows'
    BY <1>25 DEF OwnRows
  <1>27. Asked'
    <2> SUFFICES ASSUME NEW d \in Clients
                 PROVE  \/ asking'[d] = <<>> /\ parent'[d] = NoParent
                        \/ \E x \in Questions : asking'[d] = Append(Resent(d)', UserSays(x)) /\ Continues(d, parent[d])'
      BY DEF Asked
    <2>1. CASE d = c
      BY <2>1, <1>1, <1>20
    <2>2. CASE d # c
      <3>1. /\ past'[d] = past[d] /\ own'[d] = own[d] /\ asking'[d] = asking[d] /\ parent'[d] = parent[d]
        BY <2>2, <1>1, <1>19, <1>20
      <3>2. \/ asking[d] = <<>> /\ parent[d] = NoParent
            \/ \E x \in Questions : asking[d] = Append(Resent(d), UserSays(x)) /\ Continues(d, parent[d])
        BY DEF HistoryInv, Asked
      <3>3. Resent(d)' = Resent(d)
        BY <3>1 DEF Resent
      <3>4. Continues(d, parent[d])' <=> Continues(d, parent[d])
        BY <3>1 DEF Continues
      <3> QED
        BY <3>1, <3>2, <3>3, <3>4
    <2> QED
      BY <2>1, <2>2
  <1> QED
    BY <1>23, <1>24, <1>26, <1>27 DEF HistoryInv

LEMMA EditKeeps ==
    ASSUME HistoryAssumption, HistoryInv, NEW c \in Clients, Edit(c)
    PROVE  HistoryInv'
  <1>1. /\ asking[c] = <<>> /\ own[c] # <<>> /\ own' = [own EXCEPT ![c] = Front(@)]
        /\ past' = [past EXCEPT ![c] = Front(Front(@))] /\ rows' = rows /\ asking' = asking /\ parent' = parent
    BY DEF Edit
  <1>2. PICK P : P = past[c]
    OBVIOUS
  <1>3. PICK O : O = own[c]
    OBVIOUS
  <1>4. Whole(P) /\ O \in Seq(Snapshots) /\ Len(P) = 2 * Len(O) /\ \A k \in 1..Len(O) : OwnRow(c, k)
    BY <1>2, <1>3 DEF HistoryInv, OwnRows
  <1>5. PICK K \in Nat : Len(O) = K + 1 /\ Len(P) = 2 * K + 2 /\ P \in Seq(Message)
    <2>1. PICK N \in Nat : N = Len(O) /\ N # 0
      BY <1>1, <1>3, <1>4
    <2>2. PICK K \in Nat : N = K + 1
      <3>1. N - 1 \in Nat /\ N = (N - 1) + 1
        BY <2>1
      <3> QED
        BY <3>1
    <2>3. Len(P) = 2 * N /\ P \in Seq(Message)
      BY <2>1, <1>4 DEF Whole
    <2>4. 2 * N = 2 * K + 2
      BY <2>2
    <2> QED
      BY Zenon, <2>1, <2>2, <2>3, <2>4
  <1>6. PICK T : T = SubSeq(P, 1, 2 * K)
    OBVIOUS
  <1>7. /\ T \in Seq(Message) /\ Len(T) = 2 * K /\ \A i \in 1..2 * K : T[i] = P[i]
    <2>1. 2 * K \in 0..Len(P)
      BY <1>5
    <2> QED
      BY <2>1, <1>5, <1>6, PrefixOf
  <1>8. Front(Front(P)) = T
    <2>1. PICK F : F = SubSeq(P, 1, 2 * K + 1)
      OBVIOUS
    <2>2. F \in Seq(Message) /\ Len(F) = 2 * K + 1 /\ \A i \in 1..2 * K + 1 : F[i] = P[i]
      <3>1. 2 * K + 1 \in 0..Len(P)
        BY <1>5
      <3> QED
        BY <3>1, <2>1, <1>5, PrefixOf
    <2>3. Front(P) = F
      <3>1. Len(P) - 1 = 2 * K + 1
        BY <1>5
      <3> QED
        BY Zenon, <3>1, <2>1 DEF Front
    <2>4. Front(F) = SubSeq(F, 1, 2 * K)
      <3>1. Len(F) - 1 = 2 * K
        BY <2>2
      <3> QED
        BY Zenon, <3>1 DEF Front
    <2>5. /\ SubSeq(F, 1, 2 * K) \in Seq(Message) /\ Len(SubSeq(F, 1, 2 * K)) = 2 * K
          /\ \A i \in 1..2 * K : SubSeq(F, 1, 2 * K)[i] = F[i]
      <3>1. 2 * K \in 0..Len(F)
        BY <2>2
      <3> QED
        BY <3>1, <2>2, PrefixOf
    <2>6. \A i \in 1..2 * K : F[i] = T[i]
      BY <2>2, <1>7
    <2> QED
      BY <2>3, <2>4, <2>5, <2>6, <1>7, SameSequence
  <1>9. PICK G : G = SubSeq(O, 1, K)
    OBVIOUS
  <1>10. Front(O) = G /\ G \in Seq(Snapshots) /\ Len(G) = K /\ \A k \in 1..K : G[k] = O[k]
    <2>1. Len(O) - 1 = K /\ K \in 0..Len(O)
      BY <1>5
    <2> QED
      BY <2>1, <1>4, <1>9, PrefixOf DEF Front
  <1>11. /\ past = [d \in Clients |-> past[d]] /\ own = [d \in Clients |-> own[d]]
    BY DEF HistoryInv, HistoryTypes
  <1>12. past'[c] = T /\ own'[c] = G
    BY <1>1, <1>2, <1>3, <1>8, <1>10, <1>11
  <1>13. \A d \in Clients \ {c} : past'[d] = past[d] /\ own'[d] = own[d]
    BY <1>1, <1>11
  <1>14. HistoryTypes'
    BY <1>1, <1>11 DEF HistoryInv, HistoryTypes
  <1>15. RowsAreWhole'
    BY <1>1 DEF HistoryInv, RowsAreWhole
  <1>16. ASSUME NEW d \in Clients
         PROVE  /\ Whole(past'[d]) /\ own'[d] \in Seq(Snapshots) /\ Len(past'[d]) = 2 * Len(own'[d])
                /\ \A k \in 1..Len(own'[d]) : OwnRow(d, k)'
    <2>1. CASE d # c
      <3>1. past'[d] = past[d] /\ own'[d] = own[d]
        BY <2>1, <1>13
      <3> QED
        BY <3>1, <1>1 DEF HistoryInv, OwnRows, OwnRow
    <2>2. CASE d = c
      <3>1. Whole(T)
        <4>1. Len(T) % 2 = 0
          BY <1>7
        <4>2. \A i \in 1..Len(T) : i \in 1..Len(P) /\ T[i] = P[i]
          BY <1>5, <1>7
        <4> QED
          BY <4>1, <4>2, <1>4, <1>7 DEF Whole
      <3>2. ASSUME NEW k \in 1..K PROVE OwnRow(c, k)'
        <4>1. OwnRow(c, k)
          BY <1>4, <1>5
        <4>2. SubSeq(T, 1, 2 * k) = SubSeq(P, 1, 2 * k)
          <5>1. 2 * k \in 0..Len(T) /\ 2 * k \in 0..Len(P)
            BY <1>5, <1>7
          <5>2. /\ SubSeq(T, 1, 2 * k) \in Seq(Message) /\ Len(SubSeq(T, 1, 2 * k)) = 2 * k
                /\ \A i \in 1..2 * k : SubSeq(T, 1, 2 * k)[i] = T[i]
            BY <5>1, <1>7, PrefixOf
          <5>3. /\ SubSeq(P, 1, 2 * k) \in Seq(Message) /\ Len(SubSeq(P, 1, 2 * k)) = 2 * k
                /\ \A i \in 1..2 * k : SubSeq(P, 1, 2 * k)[i] = P[i]
            BY <5>1, <1>5, PrefixOf
          <5>4. \A i \in 1..2 * k : T[i] = P[i]
            BY <5>1, <1>7
          <5> QED
            BY <5>2, <5>3, <5>4, SameSequence
        <4>3. own'[c][k] = own[c][k]
          BY <1>3, <1>10, <1>12
        <4> QED
          BY <4>1, <4>2, <4>3, <1>1, <1>2, <1>12 DEF OwnRow
      <3> QED
        BY <2>2, <3>1, <3>2, <1>7, <1>10, <1>12
    <2> QED
      BY <2>1, <2>2
  <1>17. OwnRows'
    BY <1>16 DEF OwnRows
  <1>18. Asked'
    <2> SUFFICES ASSUME NEW d \in Clients
                 PROVE  \/ asking'[d] = <<>> /\ parent'[d] = NoParent
                        \/ \E x \in Questions : asking'[d] = Append(Resent(d)', UserSays(x)) /\ Continues(d, parent[d])'
      BY DEF Asked
    <2>1. \/ asking[d] = <<>> /\ parent[d] = NoParent
          \/ \E x \in Questions : asking[d] = Append(Resent(d), UserSays(x)) /\ Continues(d, parent[d])
      BY DEF HistoryInv, Asked
    <2>2. CASE asking[d] = <<>>
      <3>1. parent[d] = NoParent
        <4> SUFFICES ASSUME NEW x \in Questions, asking[d] = Append(Resent(d), UserSays(x)) PROVE FALSE
          BY <2>1
        <4>1. Whole(past[d])
          BY DEF HistoryInv, OwnRows
        <4>2. Resent(d) \in Seq(Message)
          BY <4>1, ResentIsShown DEF Shown
        <4>3. Append(Resent(d), UserSays(x)) # <<>>
          BY <4>2, QuestionIsMessage
        <4> QED
          BY <4>3, <2>2
      <3> QED
        BY <3>1, <2>2, <1>1
    <2>3. CASE asking[d] # <<>>
      <3>1. d # c
        BY <2>3, <1>1
      <3>2. past'[d] = past[d] /\ own'[d] = own[d] /\ asking'[d] = asking[d] /\ parent'[d] = parent[d]
        BY <3>1, <1>1, <1>13
      <3>3. Resent(d)' = Resent(d)
        BY <3>2 DEF Resent
      <3>4. Continues(d, parent[d])' <=> Continues(d, parent[d])
        BY <3>2 DEF Continues
      <3> QED
        BY <3>2, <3>3, <3>4, <2>1
    <2> QED
      BY <2>2, <2>3
  <1> QED
    BY <1>14, <1>15, <1>17, <1>18 DEF HistoryInv

LEMMA HistoryInvNext ==
    ASSUME HistoryAssumption, HistoryInv, Endings = {"completed"}, \A x, y \in Clients : SystemOf[x] = SystemOf[y],
           [HistoryNext]_historyVars
    PROVE  HistoryInv'
  <1>1. CASE HistoryNext
    <2>1. PICK c \in Clients :
            \/ \E q \in Questions : Ask(c, q)
            \/ \E a \in Replies, t \in Thoughts, e \in Endings : Generate(c, a, t, e)
            \/ Edit(c)
      BY Zenon, <1>1 DEF HistoryNext
    <2> QED
      BY <2>1, AskKeeps, GenerateKeeps, EditKeeps
  <1>2. CASE UNCHANGED historyVars
    <2>1. rows' = rows /\ past' = past /\ own' = own /\ asking' = asking /\ parent' = parent
      BY <1>2 DEF historyVars
    <2>2. \A d, k : OwnRow(d, k)' <=> OwnRow(d, k)
      BY <2>1 DEF OwnRow
    <2>3. \A d : Resent(d)' = Resent(d)
      BY <2>1 DEF Resent
    <2>4. \A d : Continues(d, parent[d])' <=> Continues(d, parent[d])
      BY <2>1 DEF Continues
    <2>5. HistoryTypes' /\ RowsAreWhole'
      BY <2>1 DEF HistoryInv, HistoryTypes, RowsAreWhole
    <2>6. OwnRows
      BY DEF HistoryInv
    <2>7. OwnRows'
      BY Zenon, <2>1, <2>2, <2>6 DEF OwnRows
    <2>8. Asked
      BY DEF HistoryInv
    <2>9. Asked'
      BY Zenon, <2>1, <2>3, <2>4, <2>8 DEF Asked
    <2> QED
      BY <2>5, <2>7, <2>9 DEF HistoryInv
  <1> QED
    BY <1>1, <1>2

(* What the invariant says of requests under way.                             *)
LEMMA InvHolds ==
    ASSUME HistoryAssumption, HistoryInv
    PROVE  HistoryHolds
  <1>1. ContinuesItself
    <2> SUFFICES ASSUME NEW c \in Clients, asking[c] # <<>>, own[c] # <<>>, parent[c] # Ambiguous
                 PROVE  parent[c].tape = Last(own[c]).tape /\ parent[c].segments = Last(own[c]).segments
      BY DEF ContinuesItself
    <2>1. parent[c].segments = AnswersOf(past[c]) /\ parent[c].tape = <<Prompt>> \o past[c]
      BY DEF HistoryInv, Asked, Continues
    <2>2. PICK n : rows[n].tape = <<Prompt>> \o past[c] /\ rows[n].segments = AnswersOf(past[c])
                   /\ rows[n] = own[c][Len(own[c])]
      BY OwnCandidate
    <2> QED
      BY <2>1, <2>2 DEF Last
  <1>2. OwnTokens
    <2> SUFFICES ASSUME NEW c \in Clients, asking[c] # <<>>, parent[c] # Ambiguous
                 PROVE  \A i \in DOMAIN past[c] :
                          Render(asking[c], parent[c].segments).prompt[i].thought \in {None, past[c][i].thought}
      BY Zenon DEF OwnTokens
    <2>1. PICK q \in Questions : asking[c] = Append(Resent(c), UserSays(q)) /\ parent[c].segments = AnswersOf(past[c])
      BY DEF HistoryInv, Asked, Continues
    <2>2. Whole(past[c]) /\ Shown(Resent(c), past[c])
      BY ResentIsShown DEF HistoryInv, OwnRows
    <2>3. Render(asking[c], parent[c].segments).prompt = Append(past[c], UserSays(q))
      BY <2>1, <2>2, RenderOwn
    <2>4. past[c] \in Seq(Message) /\ UserSays(q) \in Message
      BY <2>2, QuestionIsMessage DEF Whole
    <2>5. \A i \in DOMAIN past[c] : Append(past[c], UserSays(q))[i] = past[c][i]
      BY <2>4
    <2> QED
      BY <2>3, <2>5
  <1>3. KeepersServed
    <2> SUFFICES ASSUME NEW c \in Keepers PROVE parent[c] # Ambiguous
      BY DEF KeepersServed
    <2>1. c \in Clients
      BY DEF HistoryAssumption
    <2>2. NoParent # Ambiguous
      <3>1. NoParent.tape = <<>> /\ Ambiguous.tape = <<"ambiguous">>
        BY DEF NoParent, Ambiguous, Snapshot
      <3> QED
        BY <3>1
    <2> QED
      BY <2>1, <2>2 DEF HistoryInv, Asked, Continues
  <1> QED
    BY <1>1, <1>2, <1>3 DEF HistoryHolds

(* A client that sends its conversation again is given the response it grew   *)
(* from, or one with the very same tokens, or is refused; no answer of its    *)
(* prompt has the tokens of another answer; and who supplies the reasoning is *)
(* never refused (server/store.rs match_parent, rendering.py render). For any *)
(* number of clients that share questions, answers and one system prompt, if  *)
(* every turn was stored (history_cut shows what happens where one was not).  *)
THEOREM HistoryIsOwn ==
    ASSUME Endings = {"completed"}, \A x, y \in Clients : SystemOf[x] = SystemOf[y]
    PROVE  HistorySpec => []HistoryHolds
  <1>1. HistoryInit => HistoryInv
    BY HistoryAssumption, HistoryInvInit
  <1>2. HistoryInv /\ [HistoryNext]_historyVars => HistoryInv'
    BY HistoryAssumption, HistoryInvNext
  <1>3. HistoryInv => HistoryHolds
    BY HistoryAssumption, InvHolds
  <1> QED
    BY <1>1, <1>2, <1>3, PTL DEF HistorySpec
-----------------------------------------------------------------------------
(* Sequences put end to end (FlattenSeq of the library): the recursive        *)
(* function it is defined with exists, and what relates the pieces of two     *)
(* sequences place by place relates the whole.                                *)

\* There is a function that puts the first pieces end to end.
LEMMA JoiningExists ==
    ASSUME NEW p, NEW n \in Nat
    PROVE  \E f : f = [i \in 1..n |-> IF i = 1 THEN p[i] ELSE f[i - 1] \o p[i]]
  <1> DEFINE Joins(f, x) == f = [i \in 1..x |-> IF i = 1 THEN p[i] ELSE f[i - 1] \o p[i]]
             D == {x \in Nat : ~ \E f : Joins(f, x)}
  <1>1. SUFFICES ASSUME D # {} PROVE FALSE
    OBVIOUS
  <1>2. PICK x \in D : \A y \in D : x <= y
    BY <1>1, LeastExists
  <1>3. x \in Nat /\ ~ \E f : Joins(f, x)
    BY <1>2
  <1>4. CASE x = 0
    <2> DEFINE e == [i \in 1..x |-> p[i]]
    <2>1. Joins(e, x)
      BY <1>4
    <2> QED
      BY <2>1, <1>3
  <1>5. CASE x # 0
    <2>1. x - 1 \in Nat /\ x - 1 \notin D
      <3>1. x - 1 \in Nat /\ ~ (x <= x - 1)
        BY <1>3, <1>5
      <3> HIDE DEF D
      <3> QED
        BY <3>1, <1>2
    <2>2. PICK f : Joins(f, x - 1)
      BY <2>1
    <2> DEFINE g == [i \in 1..x |-> IF i < x THEN f[i] ELSE IF i = 1 THEN p[i] ELSE f[i - 1] \o p[i]]
    <2>3. ASSUME NEW i \in 1..x PROVE g[i] = IF i = 1 THEN p[i] ELSE g[i - 1] \o p[i]
      <3>1. CASE i < x
        <4>1. i \in 1..(x - 1) /\ g[i] = f[i] /\ (i # 1 => g[i - 1] = f[i - 1])
          BY <3>1, <1>3
        <4>2. f[i] = IF i = 1 THEN p[i] ELSE f[i - 1] \o p[i]
          BY <2>2, <4>1
        <4> QED
          BY <4>1, <4>2
      <3>2. CASE i = x
        <4>1. g[i] = IF i = 1 THEN p[i] ELSE f[i - 1] \o p[i]
          BY <3>2, <1>3
        <4>2. i # 1 => i - 1 \in 1..x /\ i - 1 < x
          BY <3>2, <1>3
        <4>3. i # 1 => g[i - 1] = f[i - 1]
          BY <4>2
        <4> QED
          BY <4>1, <4>3
      <3> QED
        BY <3>1, <3>2, <1>3
    <2>4. g = [i \in 1..x |-> g[i]]
      OBVIOUS
    <2>5. Joins(g, x)
      <3> HIDE DEF g
      <3> QED
        BY <2>3, <2>4
    <2> QED
      BY <2>5, <1>3
  <1> QED
    BY <1>4, <1>5

\* Pieces that agree in length and, place by place, in a relation: so do the
\* sequences they make.
LEMMA FlattenRelated ==
    ASSUME NEW A, NEW B, NEW R, NEW p \in Seq(Seq(A)), NEW q \in Seq(Seq(B)), Len(p) = Len(q),
           \A i \in 1..Len(p) : /\ Len(p[i]) = Len(q[i])
                                /\ \A k \in 1..Len(p[i]) : <<p[i][k], q[i][k]>> \in R
    PROVE  /\ FlattenSeq(p) \in Seq(A) /\ FlattenSeq(q) \in Seq(B) /\ Len(FlattenSeq(p)) = Len(FlattenSeq(q))
           /\ \A k \in 1..Len(FlattenSeq(p)) : <<FlattenSeq(p)[k], FlattenSeq(q)[k]>> \in R
  <1> DEFINE Joins(f, s) == f = [i \in 1..Len(s) |-> IF i = 1 THEN s[i] ELSE f[i - 1] \o s[i]]
             pf == CHOOSE f : Joins(f, p)
             qf == CHOOSE f : Joins(f, q)
             Good(a, b) == /\ a \in Seq(A) /\ b \in Seq(B) /\ Len(a) = Len(b)
                           /\ \A k \in 1..Len(a) : <<a[k], b[k]>> \in R
  <1>1. CASE Len(p) = 0
    <2> HIDE DEF Joins, pf, qf
    <2>1. Len(q) = 0 /\ p = <<>> /\ q = <<>>
      <3>1. \A S, s : s \in Seq(S) /\ Len(s) = 0 => s = <<>>
        OBVIOUS
      <3> QED
        BY <3>1, <1>1
    <2>2. FlattenSeq(p) = p /\ FlattenSeq(q) = q
      BY Zenon, <1>1, <2>1 DEF FlattenSeq
    <2>3. <<>> \in Seq(A) /\ <<>> \in Seq(B) /\ ~ \E k : k \in 1..Len(<<>>)
      OBVIOUS
    <2>4. FlattenSeq(p) = <<>> /\ FlattenSeq(q) = <<>>
      BY Zenon, <2>1, <2>2
    <2> QED
      BY Zenon, <2>4, <2>3
  <1>2. CASE Len(p) # 0
    <2>1. Len(p) \in Nat /\ Len(p) >= 1 /\ Len(q) = Len(p)
      BY <1>2
    <2>2. FlattenSeq(p) = pf[Len(p)] /\ FlattenSeq(q) = qf[Len(q)]
      BY <1>2, Zenon DEF FlattenSeq
    <2>3. Joins(pf, p) /\ Joins(qf, q)
      <3>0. Len(p) \in Nat /\ Len(q) \in Nat
        BY <2>1
      <3>1. \E f : Joins(f, p)
        BY Zenon, <3>0, JoiningExists
      <3>2. \E f : Joins(f, q)
        BY Zenon, <3>0, JoiningExists
      <3> QED
        BY Zenon, <3>1, <3>2
    <2> HIDE DEF pf, qf
    <2>4. \A i \in 1..Len(p) : /\ pf[i] = IF i = 1 THEN p[i] ELSE pf[i - 1] \o p[i]
                               /\ qf[i] = IF i = 1 THEN q[i] ELSE qf[i - 1] \o q[i]
      BY <2>3, <2>1
    <2>5. ASSUME NEW i \in 1..Len(p) PROVE Good(p[i], q[i])
      BY <2>1
    <2>6. ASSUME NEW a, NEW b, NEW c, NEW d, Good(a, b), Good(c, d) PROVE Good(a \o c, b \o d)
      <3>1. /\ a \o c \in Seq(A) /\ b \o d \in Seq(B) /\ Len(a \o c) = Len(b \o d)
            /\ Len(a \o c) = Len(a) + Len(c) /\ Len(a) \in Nat /\ Len(c) \in Nat
        <4> HIDE DEF Joins, pf, qf
        <4>2. a \in Seq(A) /\ c \in Seq(A) /\ b \in Seq(B) /\ d \in Seq(B) /\ Len(a) = Len(b) /\ Len(c) = Len(d)
          BY <2>6
        <4>3. a \o c \in Seq(A) /\ Len(a \o c) = Len(a) + Len(c) /\ Len(a) \in Nat /\ Len(c) \in Nat
          <5>1. a \in Seq(A) /\ c \in Seq(A)
            BY <2>6
          <5> HIDE DEF Good
          <5>2. a \o c \in Seq(A)
            BY <5>1
          <5>3. Len(a \o c) = Len(a) + Len(c) /\ Len(a) \in Nat /\ Len(c) \in Nat
            BY <5>1
          <5> QED
            BY <5>2, <5>3
        <4>4. b \o d \in Seq(B) /\ Len(b \o d) = Len(b) + Len(d)
          <5>1. b \in Seq(B) /\ d \in Seq(B)
            BY <2>6
          <5> HIDE DEF Good
          <5>2. b \o d \in Seq(B)
            BY <5>1
          <5>3. Len(b \o d) = Len(b) + Len(d)
            BY <5>1
          <5> QED
            BY <5>2, <5>3
        <4> QED
          BY Zenon, <4>2, <4>3, <4>4
      <3>2. ASSUME NEW k \in 1..Len(a \o c) PROVE <<(a \o c)[k], (b \o d)[k]>> \in R
        <4>1. CASE k <= Len(a)
          <5>1. (a \o c)[k] = a[k] /\ (b \o d)[k] = b[k] /\ k \in 1..Len(a)
            BY <2>6, <4>1, <3>1
          <5> QED
            BY <5>1, <2>6
        <4>2. CASE k > Len(a)
          <5>1. (a \o c)[k] = c[k - Len(a)] /\ (b \o d)[k] = d[k - Len(a)] /\ k - Len(a) \in 1..Len(c)
            BY <2>6, <4>2, <3>1
          <5> QED
            BY <5>1, <2>6
        <4>3. k <= Len(a) \/ k > Len(a)
          BY <3>1
        <4> QED
          BY Zenon, <4>1, <4>2, <4>3
      <3> QED
        BY <3>1, <3>2
    <2> HIDE DEF Good
    <2> DEFINE D == {i \in 1..Len(p) : ~ Good(pf[i], qf[i])}
    <2>7. D = {}
      <3> SUFFICES ASSUME D # {} PROVE FALSE
        OBVIOUS
      <3>1. PICK i \in D : \A j \in D : i <= j
        <4>1. D \subseteq Nat
          BY <2>1
        <4> QED
          BY <4>1, LeastExists
      <3>2. i \in 1..Len(p) /\ ~ Good(pf[i], qf[i])
        BY <3>1
      <3>3. i # 1
        BY <3>2, <2>4, <2>5
      <3>4. i - 1 \in 1..Len(p) /\ i - 1 \notin D
        BY <3>1, <3>2, <3>3, <2>1
      <3>5. Good(pf[i - 1], qf[i - 1]) /\ Good(p[i], q[i])
        BY <3>4, <3>2, <2>5
      <3>6. pf[i] = pf[i - 1] \o p[i] /\ qf[i] = qf[i - 1] \o q[i]
        BY <2>4, <3>2, <3>3
      <3> QED
        BY <3>2, <3>5, <3>6, <2>6
    <2>8. Good(pf[Len(p)], qf[Len(p)])
      <3>1. Len(p) \in 1..Len(p)
        BY <2>1
      <3> QED
        BY <3>1, <2>7
    <2> QED
      BY <2>8, <2>2, <2>1 DEF Good
  <1> QED
    BY <1>1, <1>2

-----------------------------------------------------------------------------
(* The parts of a prompt: what _resolve_images collects of it has every       *)
(* picture of it.                                                             *)

Parts(s) == s \in Seq(Photos \cup {"text"})
Has(s, x) == \E i \in 1..Len(s) : s[i] = x

\* One more part of the prompt.
LEMMA AddPartKeeps ==
    ASSUME NEW seen \in Seq(Photos), NEW x \in Photos \cup {"text"}
    PROVE  /\ AddPart(seen, x) \in Seq(Photos)
           /\ \A y : Has(seen, y) => Has(AddPart(seen, x), y)
           /\ x # "text" => Has(AddPart(seen, x), x)
  <1>1. CASE x = "text" \/ \E i \in DOMAIN seen : seen[i] = x
    <2>1. AddPart(seen, x) = seen
      BY <1>1 DEF AddPart
    <2>2. x # "text" => Has(seen, x)
      BY <1>1 DEF Has
    <2> QED
      BY <2>1, <2>2
  <1>2. CASE ~ (x = "text" \/ \E i \in DOMAIN seen : seen[i] = x)
    <2>1. AddPart(seen, x) = Append(seen, x) /\ x \in Photos
      BY <1>2 DEF AddPart
    <2>2. /\ Append(seen, x) \in Seq(Photos) /\ Len(Append(seen, x)) = Len(seen) + 1 /\ Len(seen) \in Nat
          /\ Append(seen, x)[Len(seen) + 1] = x /\ \A i \in 1..Len(seen) : Append(seen, x)[i] = seen[i]
      BY <2>1
    <2>3. ASSUME NEW y, Has(seen, y) PROVE Has(Append(seen, x), y)
      BY <2>2, <2>3 DEF Has
    <2>4. Has(Append(seen, x), x)
      BY <2>2 DEF Has
    <2> QED
      BY <2>1, <2>2, <2>3, <2>4
  <1> QED
    BY <1>1, <1>2

\* The recursive function that EachOnce is defined with exists.
LEMMA CollectingExists ==
    ASSUME NEW parts, NEW n \in Nat
    PROVE  \E f : f = [i \in 0..n |-> IF i = 0 THEN <<>> ELSE AddPart(f[i - 1], parts[i])]
  <1> DEFINE Collects(f, x) == f = [i \in 0..x |-> IF i = 0 THEN <<>> ELSE AddPart(f[i - 1], parts[i])]
             D == {x \in Nat : ~ \E f : Collects(f, x)}
  <1>1. SUFFICES ASSUME D # {} PROVE FALSE
    OBVIOUS
  <1>2. PICK x \in D : \A y \in D : x <= y
    BY <1>1, LeastExists
  <1>3. x \in Nat /\ ~ \E f : Collects(f, x)
    BY <1>2
  <1>4. CASE x = 0
    <2> DEFINE e == [i \in 0..x |-> <<>>]
    <2>1. Collects(e, x)
      BY <1>4
    <2> QED
      BY <2>1, <1>3
  <1>5. CASE x # 0
    <2>1. x - 1 \in Nat /\ x - 1 \notin D
      <3>1. x - 1 \in Nat /\ ~ (x <= x - 1)
        BY <1>3, <1>5
      <3> HIDE DEF D
      <3> QED
        BY <3>1, <1>2
    <2>2. PICK f : Collects(f, x - 1)
      BY <2>1
    <2> DEFINE g == [i \in 0..x |-> IF i < x THEN f[i] ELSE AddPart(f[i - 1], parts[i])]
    <2>3. ASSUME NEW i \in 0..x PROVE g[i] = IF i = 0 THEN <<>> ELSE AddPart(g[i - 1], parts[i])
      <3>1. CASE i < x
        <4>1. i \in 0..(x - 1) /\ g[i] = f[i] /\ (i # 0 => g[i - 1] = f[i - 1])
          BY <3>1, <1>3
        <4>2. f[i] = IF i = 0 THEN <<>> ELSE AddPart(f[i - 1], parts[i])
          BY <2>2, <4>1
        <4> QED
          BY <4>1, <4>2
      <3>2. CASE i = x
        <4>1. g[i] = AddPart(f[i - 1], parts[i]) /\ i # 0
          BY <3>2, <1>3, <1>5
        <4>2. i - 1 \in 0..x /\ i - 1 < x
          BY <3>2, <1>3, <1>5
        <4>3. g[i - 1] = f[i - 1]
          BY <4>2
        <4> QED
          BY <4>1, <4>3
      <3> QED
        BY <3>1, <3>2, <1>3
    <2>4. g = [i \in 0..x |-> g[i]]
      OBVIOUS
    <2>5. Collects(g, x)
      <3> HIDE DEF g
      <3> QED
        BY <2>3, <2>4
    <2> QED
      BY <2>5, <1>3
  <1> QED
    BY <1>4, <1>5

\* Every picture of the prompt is among those that are embedded.
LEMMA EachOnceHasAll ==
    ASSUME NEW parts, Parts(parts)
    PROVE  /\ EachOnce(parts) \in Seq(Photos)
           /\ \A i \in 1..Len(parts) : parts[i] # "text" => Has(EachOnce(parts), parts[i])
  <1> DEFINE Collects(f) == f = [i \in 0..Len(parts) |-> IF i = 0 THEN <<>> ELSE AddPart(f[i - 1], parts[i])]
             uf == CHOOSE f : Collects(f)
             Good(n) == /\ uf[n] \in Seq(Photos)
                        /\ \A i \in 1..n : parts[i] # "text" => Has(uf[n], parts[i])
             D == {n \in 0..Len(parts) : ~ Good(n)}
  <1>0. Len(parts) \in Nat /\ \A i \in 1..Len(parts) : parts[i] \in Photos \cup {"text"}
    BY DEF Parts
  <1>1. EachOnce(parts) = uf[Len(parts)]
    BY Zenon DEF EachOnce
  <1>2. Collects(uf)
    <2>1. \E f : Collects(f)
      BY Zenon, <1>0, CollectingExists
    <2> QED
      BY Zenon, <2>1
  <1> HIDE DEF uf
  <1>3. \A n \in 0..Len(parts) : uf[n] = IF n = 0 THEN <<>> ELSE AddPart(uf[n - 1], parts[n])
    BY <1>2
  <1>4. Good(0)
    <2>1. uf[0] = <<>>
      BY <1>3, <1>0
    <2> QED
      BY <2>1
  <1>5. ASSUME NEW n \in 1..Len(parts), Good(n - 1) PROVE Good(n)
    <2>1. uf[n] = AddPart(uf[n - 1], parts[n])
      BY <1>3, <1>0
    <2>2. uf[n - 1] \in Seq(Photos) /\ parts[n] \in Photos \cup {"text"}
      BY <1>5, <1>0
    <2>3. uf[n] \in Seq(Photos) /\ (parts[n] # "text" => Has(uf[n], parts[n]))
      BY <2>1, <2>2, AddPartKeeps
    <2>4. ASSUME NEW i \in 1..n, i # n, parts[i] # "text" PROVE Has(uf[n], parts[i])
      <3>1. i \in 1..(n - 1)
        BY <2>4, <1>0
      <3>2. Has(uf[n - 1], parts[i])
        BY <3>1, <2>4, <1>5
      <3> QED
        BY <3>2, <2>1, <2>2, AddPartKeeps
    <2> QED
      BY <2>3, <2>4
  <1>6. D = {}
    <2> SUFFICES ASSUME D # {} PROVE FALSE
      OBVIOUS
    <2>1. PICK n \in D : \A m \in D : n <= m
      <3>1. D \subseteq Nat
        BY <1>0
      <3> QED
        BY <3>1, LeastExists
    <2>2. n \in 0..Len(parts) /\ ~ Good(n)
      BY <2>1
    <2> HIDE DEF Good
    <2>3. n # 0 /\ n \in 1..Len(parts)
      BY <2>2, <1>4, <1>0
    <2>4. n - 1 \in 0..Len(parts) /\ ~ (n <= n - 1)
      BY <2>3, <1>0
    <2>5. Good(n - 1)
      BY <2>4, <2>1
    <2> QED
      BY <2>5, <2>3, <2>2, <1>5
  <1>7. Good(Len(parts))
    <2>1. Len(parts) \in 0..Len(parts)
      BY <1>0
    <2> HIDE DEF Good
    <2> QED
      BY <2>1, <1>6
  <1> QED
    BY <1>7, <1>1

-----------------------------------------------------------------------------
(* Who owns an id: once given out it stands for one place of one picture, for *)
(* as long as the process lives. Nothing in the code says so; the records,    *)
(* and the rows that are reused, only agree with it.                          *)

Places  == (Photos \cup {"text"}) \X Nat
Records == [photo : Photos, ids : Seq(Nat)]
Owners(next) == [FirstId..(next - 1) -> Photos \X Nat]
Extends(o2, o, next) == \A id \in FirstId..(next - 1) : o2[id] = o[id]

RecordOwned(r, o, next) ==
    /\ r \in Records /\ Len(r.ids) = PatchesOf[r.photo]
    /\ \A k \in 1..PatchesOf[r.photo] : r.ids[k] \in FirstId..(next - 1) /\ o[r.ids[k]] = <<r.photo, k>>
ItemsOwned(items, o, next) ==
    /\ items \in Seq(Records) /\ \A i \in 1..Len(items) : RecordOwned(items[i], o, next)
    /\ \A i, j \in 1..Len(items) : items[i].photo = items[j].photo => i = j
TokenRow(id, o) == IF id < FirstId THEN <<"text", id>> ELSE o[id]
TapeOwned(tape, o, next) ==
    /\ tape \in Seq([id : Nat, row : Places])
    /\ \A i \in 1..Len(tape) : tape[i].id < next /\ tape[i].row = TokenRow(tape[i].id, o)
Fits(items) == engine = "rollback" => Len(items) <= LruEntries

\* More ids: what agreed with the owners agrees with them still.
LEMMA RecordStaysOwned ==
    ASSUME NEW next \in Nat, NEW next2 \in Nat, next <= next2, NEW o, NEW o2, Extends(o2, o, next),
           NEW r, RecordOwned(r, o, next)
    PROVE  RecordOwned(r, o2, next2)
  <1>1. r \in Records /\ r.photo \in Photos /\ PatchesOf[r.photo] \in Nat
    BY PhotosAssumption DEF RecordOwned, Records
  <1>2. ASSUME NEW k \in 1..PatchesOf[r.photo]
        PROVE  r.ids[k] \in FirstId..(next - 1) /\ r.ids[k] \in FirstId..(next2 - 1) /\ o2[r.ids[k]] = <<r.photo, k>>
    <2>1. r.ids[k] \in FirstId..(next - 1) /\ o[r.ids[k]] = <<r.photo, k>>
      BY DEF RecordOwned
    <2>2. o2[r.ids[k]] = o[r.ids[k]]
      BY Zenon, <2>1 DEF Extends
    <2> QED
      BY <2>1, <2>2 DEF FirstId
  <1> QED
    BY <1>1, <1>2 DEF RecordOwned

LEMMA ItemsStayOwned ==
    ASSUME NEW next \in Nat, NEW next2 \in Nat, next <= next2, NEW o, NEW o2, Extends(o2, o, next),
           NEW items, ItemsOwned(items, o, next)
    PROVE  ItemsOwned(items, o2, next2)
  <1>1. \A i \in 1..Len(items) : RecordOwned(items[i], o2, next2)
    BY RecordStaysOwned DEF ItemsOwned
  <1> QED
    BY <1>1 DEF ItemsOwned

LEMMA TapeStaysOwned ==
    ASSUME NEW next \in Nat, NEW next2 \in Nat, next <= next2, NEW o, NEW o2, Extends(o2, o, next),
           NEW tape, TapeOwned(tape, o, next)
    PROVE  TapeOwned(tape, o2, next2)
  <1>1. ASSUME NEW i \in 1..Len(tape)
        PROVE  tape[i].id < next2 /\ tape[i].row = TokenRow(tape[i].id, o2)
    <2>1. tape[i].id \in Nat /\ tape[i].id < next /\ tape[i].row = TokenRow(tape[i].id, o)
      <3>0. tape \in Seq([id : Nat, row : Places])
        BY DEF TapeOwned
      <3>1. tape[i] \in [id : Nat, row : Places]
        <4>1. \A S : tape \in Seq(S) => tape[i] \in S
          OBVIOUS
        <4> QED
          BY Zenon, <4>1, <3>0
      <3> QED
        BY <3>1 DEF TapeOwned
    <2>2. ~ (tape[i].id < FirstId) => o2[tape[i].id] = o[tape[i].id]
      BY <2>1 DEF Extends, FirstId
    <2> QED
      BY <2>1, <2>2 DEF TokenRow
  <1> QED
    BY <1>1 DEF TapeOwned

\* EmbeddingCache.get and put: a record that is owned goes to the end.
LEMMA TouchedOwned ==
    ASSUME NEW next \in Nat, NEW o, NEW items, ItemsOwned(items, o, next), Fits(items),
           NEW r, RecordOwned(r, o, next)
    PROVE  ItemsOwned(Touched(items, r), o, next) /\ Fits(Touched(items, r))
  <1> DEFINE at == PlaceOf(items, r.photo)
             others == IF IsEmbedded(items, r.photo) THEN RemoveAt(items, at) ELSE items
             moved == Append(others, r)
  <1>0. items \in Seq(Records) /\ Len(items) \in Nat /\ DOMAIN items = 1..Len(items) /\ r \in Records
    BY DEF ItemsOwned, RecordOwned
  <1>1. /\ others \in Seq(Records) /\ Len(others) <= Len(items)
        /\ \A i \in 1..Len(others) : RecordOwned(others[i], o, next) /\ others[i].photo # r.photo
        /\ \A i, j \in 1..Len(others) : others[i].photo = others[j].photo => i = j
    <2>1. CASE ~ IsEmbedded(items, r.photo)
      <3>1. others = items
        BY <2>1
      <3>2. \A i \in 1..Len(items) : items[i].photo # r.photo
        BY <2>1, <1>0 DEF IsEmbedded
      <3> HIDE DEF others
      <3> QED
        BY <3>1, <3>2, <1>0 DEF ItemsOwned
    <2>2. CASE IsEmbedded(items, r.photo)
      <3>1. at \in 1..Len(items) /\ items[at].photo = r.photo
        BY <2>2, <1>0 DEF IsEmbedded, PlaceOf
      <3> DEFINE from == [i \in 1..(Len(items) - 1) |-> IF i < at THEN i ELSE i + 1]
                 front == SubSeq(items, 1, at - 1)
                 back == SubSeq(items, at + 1, Len(items))
      <3>2. others = front \o back
        BY <2>2 DEF RemoveAt
      <3> HIDE DEF at
      <3> DEFINE N == Len(items)
      <3>0. N \in Nat /\ at \in Nat /\ 1 <= at /\ at <= N /\ items \in Seq(Records)
        BY <3>1, <1>0
      <3>a. front \in Seq(Records) /\ Len(front) = at - 1 /\ \A i \in 1..(at - 1) : front[i] = items[i]
        BY <3>0
      <3>b. back \in Seq(Records) /\ Len(back) = N - at /\ \A i \in 1..(N - at) : back[i] = items[at + i]
        BY <3>0
      <3>c. from = [i \in 1..(N - 1) |-> IF i < at THEN i ELSE i + 1]
        OBVIOUS
      <3> HIDE DEF front, back, from, N
      <3>4. /\ front \o back \in Seq(Records) /\ Len(front \o back) = N - 1
            /\ \A i \in 1..(N - 1) : (front \o back)[i] = IF i < at THEN front[i] ELSE back[i - (at - 1)]
        <4>1. front \o back \in Seq(Records) /\ Len(front \o back) = Len(front) + Len(back)
          BY <3>a, <3>b
        <4>2. ASSUME NEW i \in 1..(N - 1)
              PROVE  (front \o back)[i] = IF i < at THEN front[i] ELSE back[i - (at - 1)]
          BY <3>a, <3>b, <3>0
        <4>3. Len(front) + Len(back) = N - 1
          BY <3>a, <3>b, <3>0
        <4> QED
          BY <4>1, <4>2, <4>3
      <3>5. ASSUME NEW i \in 1..(N - 1)
            PROVE  /\ from[i] \in 1..N /\ from[i] # at /\ (front \o back)[i] = items[from[i]]
        <4>1. CASE i < at
          BY <4>1, <3>a, <3>4, <3>0, <3>c
        <4>2. CASE ~ (i < at)
          <5>1. i - (at - 1) \in 1..(N - at) /\ at + (i - (at - 1)) = i + 1
            BY <4>2, <3>0
          <5>2. back[i - (at - 1)] = items[i + 1]
            BY <5>1, <3>b
          <5> QED
            <6>1. from[i] = i + 1 /\ i + 1 \in 1..N /\ i + 1 # at
              BY <4>2, <3>0, <3>c
            <6>2. (front \o back)[i] = back[i - (at - 1)]
              BY Zenon, <4>2, <3>4
            <6> QED
              BY Zenon, <6>1, <6>2, <5>2
        <4> QED
          BY <4>1, <4>2
      <3>6. \A i, j \in 1..(N - 1) : from[i] = from[j] => i = j
        BY <3>0, <3>c
      <3> HIDE DEF others
      <3>z. others \in Seq(Records) /\ Len(others) = N - 1 /\ \A i \in 1..(N - 1) : others[i] = (front \o back)[i]
        BY Zenon, <3>2, <3>4
      <3>7. ASSUME NEW i \in 1..Len(others)
            PROVE  RecordOwned(others[i], o, next) /\ others[i].photo # r.photo
        <4>1. i \in 1..(N - 1) /\ others[i] = items[from[i]] /\ from[i] \in 1..N /\ from[i] # at
          BY Zenon, <3>z, <3>5
        <4> QED
          BY <4>1, <3>1, <1>0 DEF ItemsOwned, N
      <3>8. ASSUME NEW i \in 1..Len(others), NEW j \in 1..Len(others), others[i].photo = others[j].photo PROVE i = j
        <4>1. /\ i \in 1..(N - 1) /\ others[i] = items[from[i]] /\ from[i] \in 1..N
              /\ j \in 1..(N - 1) /\ others[j] = items[from[j]] /\ from[j] \in 1..N
          BY Zenon, <3>z, <3>5
        <4>2. from[i] = from[j]
          BY <4>1, <3>8 DEF ItemsOwned, N
        <4> QED
          BY <4>1, <4>2, <3>6
      <3>9. others \in Seq(Records) /\ Len(others) <= Len(items)
        BY <3>z, <3>0 DEF N
      <3> QED
        BY <3>7, <3>8, <3>9
    <2> QED
      BY <2>1, <2>2
  <1> HIDE DEF others
  <1>2. /\ moved \in Seq(Records) /\ Len(moved) = Len(others) + 1 /\ Len(others) \in Nat
        /\ moved[Len(others) + 1] = r /\ \A i \in 1..Len(others) : moved[i] = others[i]
    BY <1>1, <1>0
  <1> HIDE DEF moved
  <1>3. ItemsOwned(moved, o, next)
    <2>1. ASSUME NEW i \in 1..Len(moved) PROVE RecordOwned(moved[i], o, next)
      <3>1. i = Len(others) + 1 \/ i \in 1..Len(others)
        BY <1>2
      <3> QED
        BY <3>1, <1>1, <1>2
    <2>2. ASSUME NEW i \in 1..Len(moved), NEW j \in 1..Len(moved), moved[i].photo = moved[j].photo PROVE i = j
      <3>1. (i = Len(others) + 1 \/ i \in 1..Len(others)) /\ (j = Len(others) + 1 \/ j \in 1..Len(others))
        BY <1>2
      <3> QED
        BY <3>1, <1>1, <1>2, <2>2
    <2> QED
      BY <2>1, <2>2, <1>2 DEF ItemsOwned
  <1>4. CASE engine = "rollback" /\ Len(moved) > LruEntries
    <2>1. Touched(items, r) = Tail(moved)
      BY Zenon, <1>4 DEF Touched, moved, others
    <2>2. /\ Tail(moved) \in Seq(Records) /\ Len(Tail(moved)) = Len(others)
          /\ \A i \in 1..Len(others) : Tail(moved)[i] = moved[i + 1] /\ i + 1 \in 1..Len(moved)
      BY <1>2
    <2>3. ItemsOwned(Tail(moved), o, next)
      BY <2>2, <1>2, <1>3 DEF ItemsOwned
    <2>4. Len(others) <= LruEntries
      BY <1>1, <1>2, <1>0, <1>4, PhotosAssumption DEF Fits
    <2> QED
      BY <2>1, <2>2, <2>3, <2>4 DEF Fits
  <1>5. CASE ~ (engine = "rollback" /\ Len(moved) > LruEntries)
    <2>1. Touched(items, r) = moved
      BY Zenon, <1>5 DEF Touched, moved, others
    <2>2. Fits(moved)
      BY <1>5, <1>2, PhotosAssumption DEF Fits
    <2> QED
      BY <2>1, <2>2, <1>3
  <1> QED
    BY <1>4, <1>5

-----------------------------------------------------------------------------
(* A turn embeds its pictures one by one; TurnOwned is what holds of the      *)
(* items, the next id and the records used after n of them.                   *)

TurnOwned(s, o, photos, n) ==
    /\ s.next \in Nat /\ nextId <= s.next /\ o \in Owners(s.next)
    /\ ItemsOwned(s.items, o, s.next) /\ Fits(s.items)
    /\ s.used \in Seq(Records) /\ Len(s.used) = n
    /\ \A i \in 1..n : s.used[i].photo = photos[i] /\ RecordOwned(s.used[i], o, s.next)

\* embed_image: the ids of a new record belong to it alone.
LEMMA NewRecordOwned ==
    ASSUME NEW next \in Nat, FirstId <= next, NEW o \in Owners(next), NEW photo \in Photos
    PROVE  \E o2 \in Owners(next + PatchesOf[photo]) :
              Extends(o2, o, next) /\ RecordOwned(NewRecord(photo, next), o2, next + PatchesOf[photo])
  <1> DEFINE P == PatchesOf[photo]
             r == NewRecord(photo, next)
             o2 == [id \in FirstId..((next + P) - 1) |-> IF id < next THEN o[id] ELSE <<photo, id - next + 1>>]
  <1>1. P \in Nat /\ P # 0
    BY PhotosAssumption
  <1>2. r = [photo |-> photo, ids |-> [k \in 1..P |-> next + k - 1]]
    BY DEF NewRecord
  <1>3. o2 \in Owners(next + P)
    <2>1. ASSUME NEW id \in FirstId..((next + P) - 1) PROVE o2[id] \in Photos \X Nat
      <3>1. CASE id < next
        BY <3>1, <1>1 DEF Owners, FirstId
      <3>2. CASE ~ (id < next)
        <4>1. id - next + 1 \in Nat /\ o2[id] = <<photo, id - next + 1>>
          BY <3>2, <1>1 DEF FirstId
        <4>2. \A m \in Nat : <<photo, m>> \in Photos \X Nat
          OBVIOUS
        <4> HIDE DEF o2
        <4> QED
          BY Zenon, <4>1, <4>2
      <3> QED
        BY <3>1, <3>2
    <2>2. o2 = [id \in FirstId..((next + P) - 1) |-> o2[id]]
      OBVIOUS
    <2> HIDE DEF o2
    <2>3. o2 \in [FirstId..((next + P) - 1) -> Photos \X Nat]
      BY Zenon, <2>1, <2>2
    <2> QED
      BY Zenon, <2>3 DEF Owners
  <1>4. Extends(o2, o, next)
    BY <1>1 DEF Extends, FirstId
  <1>5. RecordOwned(r, o2, next + P)
    <2>1. r.photo = photo /\ r.ids = [k \in 1..P |-> next + k - 1]
      BY <1>2
    <2>2. [k \in 1..P |-> next + k - 1] \in Seq(Nat) /\ Len([k \in 1..P |-> next + k - 1]) = P
      BY <1>1
    <2>3. r \in Records
      BY <1>2, <2>2 DEF Records
    <2>4. ASSUME NEW k \in 1..P PROVE r.ids[k] \in FirstId..((next + P) - 1) /\ o2[r.ids[k]] = <<photo, k>>
      <3>1. r.ids[k] = next + k - 1 /\ next + k - 1 \in FirstId..((next + P) - 1) /\ ~ (next + k - 1 < next)
        BY <2>1, <1>1 DEF FirstId
      <3>2. (next + k - 1) - next + 1 = k
        BY <1>1
      <3>3. o2[next + k - 1] = <<photo, (next + k - 1) - next + 1>>
        BY <3>1
      <3> QED
        BY <3>1, <3>2, <3>3
    <2> HIDE DEF o2, r
    <2>5. Len(r.ids) = PatchesOf[r.photo]
      BY <2>1, <2>2
    <2>6. \A k \in 1..PatchesOf[r.photo] : r.ids[k] \in FirstId..((next + P) - 1) /\ o2[r.ids[k]] = <<r.photo, k>>
      BY Zenon, <2>1, <2>4
    <2> QED
      BY Zenon, <2>1, <2>3, <2>5, <2>6 DEF RecordOwned
  <1> QED
    <2> HIDE DEF o2
    <2> QED
      BY <1>3, <1>4, <1>5

\* VisionRuntime.embed, Worker._embed: one more picture.
LEMMA EmbedKeeps ==
    ASSUME nextId \in Nat, FirstId <= nextId, NEW photos \in Seq(Photos), NEW n \in 1..Len(photos),
           NEW s, NEW o, TurnOwned(s, o, photos, n - 1)
    PROVE  \E o2 : Extends(o2, o, s.next) /\ TurnOwned(Embed(s, photos[n]), o2, photos, n)
  <1> DEFINE photo == photos[n]
             known == IsEmbedded(s.items, photo)
             record == IF known THEN RecordOf(s.items, photo) ELSE NewRecord(photo, s.next)
             next2 == IF known THEN s.next ELSE s.next + PatchesOf[photo]
             t == Embed(s, photo)
  <1>1. t.items = Touched(s.items, record) /\ t.used = Append(s.used, record) /\ t.next = next2
    BY DEF Embed
  <1>2. /\ s.next \in Nat /\ nextId <= s.next /\ FirstId <= s.next /\ o \in Owners(s.next) /\ ItemsOwned(s.items, o, s.next)
        /\ Fits(s.items) /\ photo \in Photos /\ PatchesOf[photo] \in Nat
        /\ s.used \in Seq(Records) /\ Len(s.used) = n - 1
        /\ \A i \in 1..(n - 1) : s.used[i].photo = photos[i] /\ RecordOwned(s.used[i], o, s.next)
    BY PhotosAssumption DEF TurnOwned, FirstId
  <1>3. \E o2 \in Owners(next2) : Extends(o2, o, s.next) /\ RecordOwned(record, o2, next2)
    <2>1. CASE known
      <3>1. record = s.items[PlaceOf(s.items, photo)] /\ next2 = s.next
        BY <2>1 DEF RecordOf
      <3>2. PlaceOf(s.items, photo) \in DOMAIN s.items
        BY <2>1 DEF PlaceOf, IsEmbedded
      <3>3. DOMAIN s.items = 1..Len(s.items)
        BY <1>2 DEF ItemsOwned
      <3>4. RecordOwned(record, o, next2)
        BY <3>1, <3>2, <3>3, <1>2 DEF ItemsOwned
      <3>5. Extends(o, o, s.next)
        BY DEF Extends
      <3> QED
        BY <3>1, <3>4, <3>5, <1>2
    <2>2. CASE ~ known
      <3>1. record = NewRecord(photo, s.next) /\ next2 = s.next + PatchesOf[photo]
        BY <2>2
      <3> HIDE DEF record, next2, known, photo
      <3> QED
        BY <3>1, <1>2, NewRecordOwned
    <2> QED
      BY <2>1, <2>2
  <1>4. record.photo = photo
    <2>1. CASE known
      BY <2>1 DEF RecordOf, PlaceOf, IsEmbedded
    <2>2. CASE ~ known
      BY <2>2 DEF NewRecord
    <2> QED
      BY <2>1, <2>2
  <1>5. next2 \in Nat /\ s.next <= next2
    BY <1>2
  <1> HIDE DEF record, next2, known, t, photo
  <1>6. PICK o2 \in Owners(next2) : Extends(o2, o, s.next) /\ RecordOwned(record, o2, next2)
    BY <1>3
  <1>7. ItemsOwned(Touched(s.items, record), o2, next2) /\ Fits(Touched(s.items, record))
    <2>1. ItemsOwned(s.items, o2, next2)
      BY <1>2, <1>5, <1>6, ItemsStayOwned
    <2> QED
      BY <2>1, <1>2, <1>5, <1>6, TouchedOwned
  <1>8. \A i \in 1..(n - 1) : RecordOwned(s.used[i], o2, next2)
    BY <1>2, <1>5, <1>6, RecordStaysOwned
  <1>9. record \in Records
    BY <1>6 DEF RecordOwned
  <1>10. /\ t.used \in Seq(Records) /\ Len(t.used) = n
         /\ \A i \in 1..n : t.used[i].photo = photos[i] /\ RecordOwned(t.used[i], o2, next2)
    <2>1. /\ Append(s.used, record) \in Seq(Records) /\ Len(Append(s.used, record)) = n
          /\ Append(s.used, record)[n] = record /\ \A i \in 1..(n - 1) : Append(s.used, record)[i] = s.used[i]
      BY <1>2, <1>9
    <2>2. \A i \in 1..n : i = n \/ i \in 1..(n - 1)
      OBVIOUS
    <2> QED
      BY <1>1, <2>1, <2>2, <1>2, <1>4, <1>6, <1>8 DEF photo
  <1>11. nextId <= next2
    BY <1>2, <1>5
  <1>12. TurnOwned(t, o2, photos, n)
    BY <1>1, <1>5, <1>6, <1>7, <1>10, <1>11 DEF TurnOwned
  <1> QED
    BY <1>6, <1>12 DEF t, photo

\* The recursive function that EmbedAll is defined with exists.
LEMMA EmbeddingExists ==
    ASSUME NEW photos, NEW n \in Nat
    PROVE  \E f : f = [i \in 0..n |-> IF i = 0 THEN BeforeTurn ELSE Embed(f[i - 1], photos[i])]
  <1> DEFINE Embeds(f, x) == f = [i \in 0..x |-> IF i = 0 THEN BeforeTurn ELSE Embed(f[i - 1], photos[i])]
             D == {x \in Nat : ~ \E f : Embeds(f, x)}
  <1>1. SUFFICES ASSUME D # {} PROVE FALSE
    OBVIOUS
  <1>2. PICK x \in D : \A y \in D : x <= y
    BY <1>1, LeastExists
  <1>3. x \in Nat /\ ~ \E f : Embeds(f, x)
    BY <1>2
  <1>4. CASE x = 0
    <2> DEFINE e == [i \in 0..x |-> BeforeTurn]
    <2>1. Embeds(e, x)
      BY <1>4
    <2> QED
      BY <2>1, <1>3
  <1>5. CASE x # 0
    <2>1. x - 1 \in Nat /\ x - 1 \notin D
      <3>1. x - 1 \in Nat /\ ~ (x <= x - 1)
        BY <1>3, <1>5
      <3> HIDE DEF D
      <3> QED
        BY <3>1, <1>2
    <2>2. PICK f : Embeds(f, x - 1)
      BY <2>1
    <2> DEFINE g == [i \in 0..x |-> IF i < x THEN f[i] ELSE Embed(f[i - 1], photos[i])]
    <2>3. ASSUME NEW i \in 0..x PROVE g[i] = IF i = 0 THEN BeforeTurn ELSE Embed(g[i - 1], photos[i])
      <3>1. CASE i < x
        <4>1. i \in 0..(x - 1) /\ g[i] = f[i] /\ (i # 0 => g[i - 1] = f[i - 1])
          BY <3>1, <1>3
        <4>2. f[i] = IF i = 0 THEN BeforeTurn ELSE Embed(f[i - 1], photos[i])
          BY <2>2, <4>1
        <4> QED
          BY <4>1, <4>2
      <3>2. CASE i = x
        <4>1. g[i] = Embed(f[i - 1], photos[i]) /\ i # 0
          BY <3>2, <1>3, <1>5
        <4>2. i - 1 \in 0..x /\ i - 1 < x
          BY <3>2, <1>3, <1>5
        <4>3. g[i - 1] = f[i - 1]
          BY <4>2
        <4> QED
          BY <4>1, <4>3
      <3> QED
        BY <3>1, <3>2, <1>3
    <2>4. g = [i \in 0..x |-> g[i]]
      OBVIOUS
    <2>5. Embeds(g, x)
      <3> HIDE DEF g
      <3> QED
        BY <2>3, <2>4
    <2> QED
      BY <2>5, <1>3
  <1> QED
    BY <1>4, <1>5

\* A turn embeds all its pictures, and no id gets a second owner.
LEMMA EmbedAllKeeps ==
    ASSUME nextId \in Nat, FirstId <= nextId, NEW photos \in Seq(Photos), NEW o \in Owners(nextId),
           ItemsOwned(embedded, o, nextId), Fits(embedded)
    PROVE  \E o2 : Extends(o2, o, nextId) /\ TurnOwned(EmbedAll(photos), o2, photos, Len(photos))
  <1> DEFINE Embeds(f) == f = [i \in 0..Len(photos) |-> IF i = 0 THEN BeforeTurn ELSE Embed(f[i - 1], photos[i])]
             sf == CHOOSE f : Embeds(f)
             Good(n) == \E o2 : Extends(o2, o, nextId) /\ TurnOwned(sf[n], o2, photos, n)
             D == {n \in 0..Len(photos) : ~ Good(n)}
  <1>0. Len(photos) \in Nat
    OBVIOUS
  <1>1. EmbedAll(photos) = sf[Len(photos)]
    BY Zenon DEF EmbedAll
  <1>2. Embeds(sf)
    <2>1. \E f : Embeds(f)
      BY Zenon, <1>0, EmbeddingExists
    <2> QED
      BY Zenon, <2>1
  <1> HIDE DEF sf
  <1>3. \A n \in 0..Len(photos) : sf[n] = IF n = 0 THEN BeforeTurn ELSE Embed(sf[n - 1], photos[n])
    BY <1>2
  <1>4. Good(0)
    <2>1. sf[0] = BeforeTurn
      BY <1>3, <1>0
    <2>2. BeforeTurn.items = embedded /\ BeforeTurn.next = nextId /\ BeforeTurn.used = <<>>
      BY DEF BeforeTurn
    <2>3. <<>> \in Seq(Records) /\ Len(<<>>) = 0 /\ nextId <= nextId
      OBVIOUS
    <2>4. TurnOwned(BeforeTurn, o, photos, 0)
      BY <2>2, <2>3 DEF TurnOwned
    <2>5. Extends(o, o, nextId)
      BY DEF Extends
    <2> QED
      BY <2>1, <2>4, <2>5
  <1>5. ASSUME NEW n \in 1..Len(photos), Good(n - 1) PROVE Good(n)
    <2>1. sf[n] = Embed(sf[n - 1], photos[n])
      BY <1>3, <1>0
    <2>2. PICK o2 : Extends(o2, o, nextId) /\ TurnOwned(sf[n - 1], o2, photos, n - 1)
      BY <1>5
    <2>3. PICK o3 : Extends(o3, o2, sf[n - 1].next) /\ TurnOwned(Embed(sf[n - 1], photos[n]), o3, photos, n)
      BY <2>2, EmbedKeeps
    <2>4. nextId <= sf[n - 1].next /\ sf[n - 1].next \in Nat
      BY <2>2 DEF TurnOwned
    <2>5. Extends(o3, o, nextId)
      <3> SUFFICES ASSUME NEW id \in FirstId..(nextId - 1) PROVE o3[id] = o[id]
        BY DEF Extends
      <3>1. id \in FirstId..(sf[n - 1].next - 1)
        BY <2>4 DEF FirstId
      <3> QED
        BY <3>1, <2>2, <2>3 DEF Extends
    <2> QED
      BY <2>1, <2>3, <2>5
  <1>6. D = {}
    <2> SUFFICES ASSUME D # {} PROVE FALSE
      OBVIOUS
    <2>1. PICK n \in D : \A m \in D : n <= m
      <3>1. D \subseteq Nat
        BY <1>0
      <3> QED
        BY <3>1, LeastExists
    <2>2. n \in 0..Len(photos) /\ ~ Good(n)
      BY <2>1
    <2> HIDE DEF Good
    <2>3. n # 0 /\ n \in 1..Len(photos)
      BY <2>2, <1>4, <1>0
    <2>4. n - 1 \in 0..Len(photos) /\ ~ (n <= n - 1)
      BY <2>3, <1>0
    <2>5. Good(n - 1)
      BY <2>4, <2>1
    <2> QED
      BY <2>5, <2>3, <2>2, <1>5
  <1>7. Good(Len(photos))
    <2>1. Len(photos) \in 0..Len(photos)
      BY <1>0
    <2> HIDE DEF Good
    <2> QED
      BY <2>1, <1>6
  <1> QED
    BY <1>7, <1>1

-----------------------------------------------------------------------------
(* What the tokens of a prompt mean: a token of text its own row, an id the   *)
(* place that it is owned for.                                                *)

\* A token and the row that it should have; its row is to be found.
Meant(o, next, placed) ==
    {m \in Nat \X Places : /\ m[1] < next /\ m[2] = TokenRow(m[1], o)
                           /\ m[1] < FirstId \/ \E x \in placed : x.id = m[1]}

\* Tokens that mean these rows; the beginning of a tape that may be reused for
\* them; and a tape that has them all in their rows.
Mean(tokens, meaning, o, next, placed) ==
    /\ tokens \in Seq(Nat) /\ meaning \in Seq(Places) /\ Len(tokens) = Len(meaning)
    /\ \A k \in 1..Len(tokens) : <<tokens[k], meaning[k]>> \in Meant(o, next, placed)
RowsOwned(placed, o, next) == \A x \in placed : x.id \in FirstId..(next - 1) /\ x.row = o[x.id]
Begins(old, tokens, o) ==
    /\ old \in Seq([id : Nat, row : Places]) /\ Len(old) <= Len(tokens)
    /\ \A i \in 1..Len(old) : old[i].id = tokens[i] /\ old[i].row = TokenRow(tokens[i], o)
Carries(tape, tokens, meaning) ==
    Len(tape) = Len(tokens) /\ \A i \in 1..Len(tokens) : tape[i].id = tokens[i] /\ tape[i].row = meaning[i]

\* render, of one part: its tokens mean the part.
LEMMA TokensMean ==
    ASSUME NEW next \in Nat, FirstId <= next, NEW o \in Owners(next), NEW used \in Seq(Records),
           \A i \in 1..Len(used) : RecordOwned(used[i], o, next),
           NEW part \in Photos \cup {"text"}, part # "text" => \E i \in 1..Len(used) : used[i].photo = part
    PROVE  /\ TokensOf(part, used) \in Seq(Nat) /\ MeaningOf(part) \in Seq(Places)
           /\ Len(TokensOf(part, used)) = Len(MeaningOf(part))
           /\ \A k \in 1..Len(TokensOf(part, used)) :
                 <<TokensOf(part, used)[k], MeaningOf(part)[k]>> \in Meant(o, next, PlacedRows(used))
  <1> DEFINE placed == PlacedRows(used)
  <1>1. ASSUME NEW t \in {TextToken, StartToken, EndToken}
        PROVE  t \in Nat /\ <<"text", t>> \in Places /\ <<t, <<"text", t>>>> \in Meant(o, next, placed)
    <2>1. t \in Nat /\ t < FirstId /\ t < next
      BY DEF TextToken, StartToken, EndToken, FirstId
    <2>2. <<"text", t>> \in Places
      BY <2>1 DEF Places
    <2>3. TokenRow(t, o) = <<"text", t>>
      BY <2>1 DEF TokenRow
    <2> DEFINE m == <<t, <<"text", t>>>>
    <2>4. m[1] = t /\ m[2] = <<"text", t>> /\ m \in Nat \X Places
      BY <2>1, <2>2
    <2> HIDE DEF m, placed
    <2>5. m \in Meant(o, next, placed)
      BY <2>1, <2>3, <2>4 DEF Meant
    <2> QED
      BY <2>1, <2>2, <2>5 DEF m
  <1>2. CASE part = "text"
    <2>1. TokensOf(part, used) = <<TextToken>> /\ MeaningOf(part) = <<<<"text", TextToken>>>>
      BY <1>2 DEF TokensOf, MeaningOf
    <2>2. <<TextToken>> \in Seq(Nat) /\ Len(<<TextToken>>) = 1 /\ <<TextToken>>[1] = TextToken
      BY DEF TextToken
    <2>3. \A x : x \in Places => <<x>> \in Seq(Places) /\ Len(<<x>>) = 1 /\ <<x>>[1] = x
      OBVIOUS
    <2>4. <<<<"text", TextToken>>>> \in Seq(Places) /\ Len(<<<<"text", TextToken>>>>) = 1
          /\ <<<<"text", TextToken>>>>[1] = <<"text", TextToken>>
      BY Zenon, <1>1, <2>3
    <2>5. \A k \in 1..1 : k = 1
      OBVIOUS
    <2> HIDE DEF placed
    <2>6. \A k \in 1..1 : <<<<TextToken>>[k], <<<<"text", TextToken>>>>[k]>> \in Meant(o, next, placed)
      BY Zenon, <2>2, <2>4, <2>5, <1>1
    <2> QED
      BY Zenon, <2>1, <2>2, <2>4, <2>6 DEF placed
  <1>3. CASE part # "text"
    <2> DEFINE at == PlaceOf(used, part)
               ids == used[at].ids
               P == PatchesOf[part]
               places == [k \in 1..P |-> <<part, k>>]
               t == TokensOf(part, used)
               m == MeaningOf(part)
    <2>1. at \in 1..Len(used) /\ used[at].photo = part
      <3>1. DOMAIN used = 1..Len(used)
        OBVIOUS
      <3> QED
        BY <1>3, <3>1 DEF PlaceOf
    <2>2. part \in Photos /\ P \in Nat
      BY <1>3, PhotosAssumption
    <2>3. ids \in Seq(Nat) /\ Len(ids) = P /\ \A k \in 1..P : ids[k] \in FirstId..(next - 1) /\ o[ids[k]] = <<part, k>>
      <3>1. RecordOwned(used[at], o, next) /\ used[at] \in Records
        BY <2>1
      <3> HIDE DEF at
      <3> QED
        BY <3>1, <2>1 DEF RecordOwned, Records
    <2>4. t = <<StartToken>> \o ids \o <<EndToken>>
      BY <1>3 DEF TokensOf, RecordOf
    <2>5. m = <<<<"text", StartToken>>>> \o places \o <<<<"text", EndToken>>>>
      BY <1>3 DEF MeaningOf
    <2>6. ASSUME NEW k \in 1..P PROVE <<ids[k], places[k]>> \in Meant(o, next, placed) /\ places[k] \in Places
      <3>1. places[k] = <<part, k>>
        OBVIOUS
      <3>2. <<part, k>> \in Places /\ k \in Nat
        BY <2>2 DEF Places
      <3>3. ids[k] \in Nat /\ FirstId <= ids[k] /\ ids[k] < next /\ o[ids[k]] = <<part, k>>
        <4>1. ids[k] \in FirstId..(next - 1) /\ o[ids[k]] = <<part, k>>
          BY Zenon, <2>3
        <4> HIDE DEF ids
        <4> QED
          BY <4>1 DEF FirstId
      <3>4. k \in DOMAIN ids
        BY <2>3
      <3>5. [id |-> ids[k], row |-> <<part, k>>] \in placed
        <4>1. at \in DOMAIN used
          BY <2>1
        <4>2. [id |-> used[at].ids[k], row |-> <<used[at].photo, k>>] \in
                 {[id |-> used[at].ids[n], row |-> <<used[at].photo, n>>] : n \in DOMAIN used[at].ids}
          BY <3>4
        <4>3. [id |-> used[at].ids[k], row |-> <<used[at].photo, k>>] \in placed
          BY Zenon, <4>1, <4>2 DEF PlacedRows
        <4> QED
          BY <4>3, <2>1
      <3>6. TokenRow(ids[k], o) = <<part, k>>
        BY <3>3 DEF TokenRow, FirstId
      <3> DEFINE pair == <<ids[k], <<part, k>>>>
                 x == [id |-> ids[k], row |-> <<part, k>>]
      <3>7. pair[1] = ids[k] /\ pair[2] = <<part, k>> /\ x.id = ids[k]
        OBVIOUS
      <3>8. pair \in Nat \X Places
        BY <3>2, <3>3
      <3>9. pair \in Meant(o, next, placed)
        <4> HIDE DEF pair, placed, x, ids
        <4> QED
          BY <3>3, <3>5, <3>6, <3>7, <3>8 DEF Meant, x
      <3> QED
        BY <3>1, <3>2, <3>9
    <2> HIDE DEF ids, at, places
    <2>7. places \in Seq(Places) /\ Len(places) = P
      <3>1. places \in [1..P -> Places]
        BY <2>6 DEF places
      <3> QED
        BY <3>1, <2>2
    <2>8. t \in Seq(Nat) /\ Len(t) = P + 2
          /\ \A k \in 1..(P + 2) : t[k] = IF k = 1 THEN StartToken ELSE IF k = P + 2 THEN EndToken ELSE ids[k - 1]
      BY <2>3, <2>4, <2>2 DEF StartToken, EndToken
    <2>9. m \in Seq(Places) /\ Len(m) = P + 2
          /\ \A k \in 1..(P + 2) : m[k] = IF k = 1 THEN <<"text", StartToken>>
                                          ELSE IF k = P + 2 THEN <<"text", EndToken>> ELSE places[k - 1]
      <3> DEFINE a == <<"text", StartToken>>
                 b == <<"text", EndToken>>
      <3>1. a \in Places /\ b \in Places
        BY <1>1
      <3> HIDE DEF a, b
      <3>2. m = <<a>> \o places \o <<b>>
        BY <2>5 DEF a, b
      <3>3. m \in Seq(Places) /\ Len(m) = P + 2
          /\ \A k \in 1..(P + 2) : m[k] = IF k = 1 THEN a ELSE IF k = P + 2 THEN b ELSE places[k - 1]
        <4>1. <<a>> \in Seq(Places) /\ Len(<<a>>) = 1 /\ <<a>>[1] = a /\ <<b>> \in Seq(Places) /\ Len(<<b>>) = 1 /\ <<b>>[1] = b
          BY <3>1
        <4>2. /\ <<a>> \o places \in Seq(Places) /\ Len(<<a>> \o places) = P + 1
              /\ \A k \in 1..(P + 1) : (<<a>> \o places)[k] = IF k = 1 THEN a ELSE places[k - 1]
          BY <4>1, <2>7, <2>2
        <4> DEFINE c == <<a>> \o places
        <4> HIDE DEF c
        <4>3. c \in Seq(Places) /\ Len(c) = P + 1 /\ \A k \in 1..(P + 1) : c[k] = IF k = 1 THEN a ELSE places[k - 1]
          BY Zenon, <4>2 DEF c
        <4>4. c \o <<b>> \in Seq(Places) /\ Len(c \o <<b>>) = P + 2
          BY <4>1, <4>3, <2>2
        <4>5. ASSUME NEW k \in 1..(P + 2)
              PROVE  (c \o <<b>>)[k] = IF k = 1 THEN a ELSE IF k = P + 2 THEN b ELSE places[k - 1]
          <5>1. CASE k = P + 2
            BY <5>1, <4>1, <4>3, <2>2
          <5>2. CASE k # P + 2
            <6>1. k \in 1..(P + 1) /\ (c \o <<b>>)[k] = c[k]
              BY <5>2, <4>1, <4>3, <2>2
            <6> QED
              BY <6>1, <5>2, <4>3
          <5> QED
            BY <5>1, <5>2
        <4> QED
          BY <4>4, <4>5, <3>2 DEF c
      <3> QED
        BY <3>3 DEF a, b
    <2> HIDE DEF t, m, placed
    <2>10. ASSUME NEW k \in 1..(P + 2) PROVE <<t[k], m[k]>> \in Meant(o, next, placed)
      <3>1. CASE k = 1
        BY <3>1, <2>8, <2>9, <1>1
      <3>2. CASE k = P + 2
        <4>1. k # 1
          BY <3>2, <2>2
        <4> QED
          BY <4>1, <3>2, <2>8, <2>9, <1>1
      <3>3. CASE k # 1 /\ k # P + 2
        <4>1. k - 1 \in 1..P
          BY <3>3, <2>2
        <4> QED
          BY <4>1, <3>3, <2>8, <2>9, <2>6
      <3> QED
        BY <3>1, <3>2, <3>3
    <2>11. Len(t) = Len(m)
      BY <2>8, <2>9
    <2>12. \A k \in 1..Len(t) : <<t[k], m[k]>> \in Meant(o, next, placed)
      BY Zenon, <2>8, <2>10
    <2> QED
      BY Zenon, <2>8, <2>9, <2>11, <2>12 DEF t, m, placed
  <1> QED
    BY <1>2, <1>3

\* render: the tokens of a prompt mean the prompt.
LEMMA PromptMeans ==
    ASSUME NEW next \in Nat, FirstId <= next, NEW o \in Owners(next), NEW used \in Seq(Records),
           \A i \in 1..Len(used) : RecordOwned(used[i], o, next), NEW parts, Parts(parts),
           \A i \in 1..Len(parts) : parts[i] # "text" => \E j \in 1..Len(used) : used[j].photo = parts[i]
    PROVE  Mean(RenderParts(parts, used), Meaning(parts), o, next, PlacedRows(used))
  <1> DEFINE p == [i \in DOMAIN parts |-> TokensOf(parts[i], used)]
             q == [i \in DOMAIN parts |-> MeaningOf(parts[i])]
             N == Len(parts)
             R == Meant(o, next, PlacedRows(used))
  <1>0. N \in Nat /\ DOMAIN parts = 1..N /\ \A i \in 1..N : parts[i] \in Photos \cup {"text"}
    BY DEF Parts
  <1>1. ASSUME NEW i \in 1..N
        PROVE  /\ p[i] \in Seq(Nat) /\ q[i] \in Seq(Places) /\ Len(p[i]) = Len(q[i])
               /\ \A k \in 1..Len(p[i]) : <<p[i][k], q[i][k]>> \in R
    <2>1. p[i] = TokensOf(parts[i], used) /\ q[i] = MeaningOf(parts[i]) /\ parts[i] \in Photos \cup {"text"}
      BY <1>0
    <2> HIDE DEF p, q
    <2> QED
      BY <2>1, TokensMean
  <1>2. p = [i \in 1..N |-> p[i]] /\ q = [i \in 1..N |-> q[i]]
    BY <1>0
  <1> HIDE DEF p, q, R
  <1>3. p \in Seq(Seq(Nat)) /\ q \in Seq(Seq(Places)) /\ Len(p) = N /\ Len(q) = N
    <2>1. p \in [1..N -> Seq(Nat)] /\ q \in [1..N -> Seq(Places)]
      BY <1>1, <1>2
    <2>2. \A S, f : f \in [1..N -> S] => f \in Seq(S) /\ Len(f) = N
      BY <1>0
    <2> QED
      BY Zenon, <2>1, <2>2
  <1>4. \A i \in 1..Len(p) : Len(p[i]) = Len(q[i]) /\ \A k \in 1..Len(p[i]) : <<p[i][k], q[i][k]>> \in R
    BY <1>1, <1>3
  <1>5. /\ FlattenSeq(p) \in Seq(Nat) /\ FlattenSeq(q) \in Seq(Places) /\ Len(FlattenSeq(p)) = Len(FlattenSeq(q))
        /\ \A k \in 1..Len(FlattenSeq(p)) : <<FlattenSeq(p)[k], FlattenSeq(q)[k]>> \in R
    <2>1. Len(p) = Len(q)
      BY <1>3
    <2> QED
      BY <1>3, <1>4, <2>1, FlattenRelated
  <1>6. RenderParts(parts, used) = FlattenSeq(p) /\ Meaning(parts) = FlattenSeq(q)
    BY Zenon DEF RenderParts, Meaning, p, q
  <1> QED
    BY Zenon, <1>5, <1>6 DEF R, Mean

-----------------------------------------------------------------------------
(* What a turn finds in the tapes: rows that are right for its tokens.        *)

\* The longest beginning that a tape shares with the tokens.
LEMMA SharedBeginning ==
    ASSUME NEW tape \in Seq([id : Nat, row : Places]), NEW tokens \in Seq(Nat)
    PROVE  /\ SharedWith(tape, tokens) \in Nat /\ SharedWith(tape, tokens) <= Len(tape)
           /\ SharedWith(tape, tokens) <= Len(tokens)
           /\ \A i \in 1..SharedWith(tape, tokens) : tape[i].id = tokens[i]
  <1> DEFINE least == Min({Len(tape), Len(tokens)})
             same == {n \in 0..least : \A i \in 1..n : tape[i].id = tokens[i]}
  <1>1. Len(tape) \in Nat /\ Len(tokens) \in Nat
    OBVIOUS
  <1>2. least \in Nat /\ least <= Len(tape) /\ least <= Len(tokens)
    <2>1. least = IF Len(tape) <= Len(tokens) THEN Len(tape) ELSE Len(tokens)
      BY Zenon, <1>1, MinOfTwo
    <2> HIDE DEF least
    <2> QED
      BY <1>1, <2>1
  <1> HIDE DEF least
  <1>3. 0 \in same /\ same \subseteq Nat /\ \A n \in same : n <= least
    BY <1>2
  <1>4. Max(same) \in same
    <2> HIDE DEF same
    <2> QED
      BY <1>2, <1>3, MaxIsGreatest
  <1>5. SharedWith(tape, tokens) = Max(same)
    BY Zenon DEF SharedWith, same, least
  <1> DEFINE best == Max(same)
  <1>6. best \in 0..least /\ \A i \in 1..best : tape[i].id = tokens[i]
    BY <1>4
  <1> HIDE DEF best
  <1>7. best \in Nat /\ best <= Len(tape) /\ best <= Len(tokens)
    BY <1>6, <1>2, <1>1
  <1> QED
    BY <1>5, <1>6, <1>7 DEF best

LEMMA ReusedOwned ==
    ASSUME NEW tokens \in Seq(Nat), NEW o, NEW next, \A tape \in tapes : TapeOwned(tape, o, next)
    PROVE  Begins(Reused(tokens), tokens, o)
  <1>1. CASE tapes = {}
    <2>1. Reused(tokens) = <<>>
      BY <1>1 DEF Reused
    <2> QED
      BY <2>1 DEF Begins
  <1>2. CASE tapes # {}
    <2> DEFINE Longest(r) == \A s \in tapes : SharedWith(s, tokens) <= SharedWith(r, tokens)
               tape == CHOOSE r \in tapes : Longest(r)
               n == SharedWith(tape, tokens)
               lengths == {SharedWith(s, tokens) : s \in tapes}
    <2>0. Len(tokens) \in Nat
      OBVIOUS
    <2>1. ASSUME NEW s \in tapes
          PROVE  s \in Seq([id : Nat, row : Places]) /\ SharedWith(s, tokens) \in Nat /\ SharedWith(s, tokens) <= Len(tokens)
      <3>1. s \in Seq([id : Nat, row : Places])
        BY DEF TapeOwned
      <3> QED
        BY <3>1, SharedBeginning
    <2>2. lengths \subseteq Nat /\ lengths # {} /\ \A m \in lengths : m <= Len(tokens)
      BY <2>1, <1>2
    <2>3. Max(lengths) \in lengths /\ \A m \in lengths : m <= Max(lengths)
      <3> HIDE DEF lengths
      <3> QED
        BY <2>0, <2>2, MaxIsGreatest
    <2>4. PICK r \in tapes : Max(lengths) = SharedWith(r, tokens)
      BY <2>3
    <2>5. Longest(r)
      <3> SUFFICES ASSUME NEW s \in tapes PROVE SharedWith(s, tokens) <= SharedWith(r, tokens)
        OBVIOUS
      <3>1. SharedWith(s, tokens) \in lengths
        OBVIOUS
      <3> HIDE DEF lengths
      <3> QED
        BY <3>1, <2>3, <2>4
    <2>6. tape \in tapes
      BY Zenon, <2>5
    <2> HIDE DEF lengths
    <2>7. Reused(tokens) = SubSeq(tape, 1, n)
      BY Zenon, <1>2 DEF Reused
    <2> HIDE DEF tape, n
    <2>8. /\ tape \in Seq([id : Nat, row : Places])
          /\ \A i \in 1..Len(tape) : tape[i].row = TokenRow(tape[i].id, o)
      BY <2>6 DEF TapeOwned
    <2>9. /\ n \in Nat /\ n <= Len(tape) /\ n <= Len(tokens) /\ \A i \in 1..n : tape[i].id = tokens[i]
      BY <2>8, SharedBeginning DEF n
    <2>10. /\ SubSeq(tape, 1, n) \in Seq([id : Nat, row : Places]) /\ Len(SubSeq(tape, 1, n)) = n
           /\ \A i \in 1..n : SubSeq(tape, 1, n)[i] = tape[i]
      <3>1. \A S : tape \in Seq(S) => /\ SubSeq(tape, 1, n) \in Seq(S) /\ Len(SubSeq(tape, 1, n)) = n
                                      /\ \A i \in 1..n : SubSeq(tape, 1, n)[i] = tape[i]
        BY <2>9
      <3> QED
        BY Zenon, <3>1, <2>8
    <2>11. \A i \in 1..n : tape[i].id = tokens[i] /\ tape[i].row = TokenRow(tokens[i], o)
      <3>1. \A i \in 1..n : i \in 1..Len(tape)
        BY <2>9, <2>8
      <3> QED
        BY <3>1, <2>8, <2>9
    <2> QED
      BY <2>7, <2>9, <2>10, <2>11 DEF Begins
  <1> QED
    BY <1>1, <1>2

-----------------------------------------------------------------------------
(* The invariant: there are owners that every record that is embedded and     *)
(* every row that may be reused agree with.                                   *)

PicturesInv ==
    /\ nextId \in Nat /\ FirstId <= nextId /\ Fits(embedded) /\ ShowsItsPictures
    /\ \E o \in Owners(nextId) :
          ItemsOwned(embedded, o, nextId) /\ \A tape \in tapes : TapeOwned(tape, o, nextId)

LEMMA PicturesStart == PhotosInit => PicturesInv
  <1> SUFFICES ASSUME PhotosInit PROVE PicturesInv
    OBVIOUS
  <1>1. embedded = <<>> /\ nextId = FirstId /\ tapes = {} /\ showing = <<>>
    BY DEF PhotosInit
  <1>2. nextId \in Nat /\ FirstId <= nextId
    BY <1>1 DEF FirstId
  <1>3. Fits(embedded)
    BY <1>1, PhotosAssumption DEF Fits
  <1>4. ShowsItsPictures
    BY <1>1 DEF ShowsItsPictures
  <1> DEFINE o == [id \in FirstId..(nextId - 1) |-> <<id, 0>>]
  <1>5. o \in Owners(nextId)
    BY <1>1 DEF Owners, FirstId
  <1>6. ItemsOwned(embedded, o, nextId)
    BY <1>1 DEF ItemsOwned
  <1> HIDE DEF o
  <1> QED
    BY <1>1, <1>2, <1>3, <1>4, <1>5, <1>6 DEF PicturesInv

\* The tape of a turn: what is reused and what is made now, each token in its row.
LEMMA TurnTape ==
    ASSUME NEW next \in Nat, NEW o \in Owners(next), NEW placed, RowsOwned(placed, o, next),
           NEW tokens, NEW meaning, Mean(tokens, meaning, o, next, placed), NEW old, Begins(old, tokens, o)
    PROVE  LET tape == old \o MadeNow(tokens, old, placed)
           IN  TapeOwned(tape, o, next) /\ Carries(tape, tokens, meaning)
  <1>0. /\ tokens \in Seq(Nat) /\ meaning \in Seq(Places) /\ Len(tokens) = Len(meaning)
        /\ \A k \in 1..Len(tokens) : <<tokens[k], meaning[k]>> \in Meant(o, next, placed)
        /\ old \in Seq([id : Nat, row : Places]) /\ Len(old) <= Len(tokens)
        /\ \A x \in placed : x.id \in FirstId..(next - 1) /\ x.row = o[x.id]
        /\ \A i \in 1..Len(old) : old[i].id = tokens[i] /\ old[i].row = TokenRow(tokens[i], o)
    BY Zenon DEF RowsOwned, Mean, Begins
  <1> DEFINE L == Len(old)
             N == Len(tokens)
             Entries == [id : Nat, row : Places]
             fresh == MadeNow(tokens, old, placed)
             tape == old \o fresh
  <1>1. L \in Nat /\ N \in Nat /\ L <= N
    BY <1>0
  <1>2. ASSUME NEW i \in 1..N
        PROVE  /\ tokens[i] \in Nat /\ meaning[i] \in Places /\ tokens[i] < next /\ meaning[i] = TokenRow(tokens[i], o)
               /\ tokens[i] < FirstId \/ \E x \in placed : x.id = tokens[i]
    <2> DEFINE m == <<tokens[i], meaning[i]>>
    <2>1. m \in Meant(o, next, placed) /\ m[1] = tokens[i] /\ m[2] = meaning[i]
      BY <1>0
    <2>2. tokens[i] \in Nat /\ meaning[i] \in Places
      BY <1>0
    <2> HIDE DEF m
    <2>3. m[1] < next /\ m[2] = TokenRow(m[1], o) /\ (m[1] < FirstId \/ \E x \in placed : x.id = m[1])
      BY <2>1 DEF Meant
    <2> QED
      BY Zenon, <2>1, <2>2, <2>3
  <1>3. ASSUME NEW i \in 1..N PROVE RowFor(tokens[i], placed) = meaning[i]
    <2>1. CASE tokens[i] < FirstId
      BY <2>1, <1>2 DEF RowFor, TokenRow
    <2>2. CASE ~ (tokens[i] < FirstId)
      <3>1. PICK x \in placed : x = CHOOSE y \in placed : y.id = tokens[i]
        BY <2>2, <1>2
      <3>2. x.id = tokens[i]
        BY <3>1, <2>2, <1>2
      <3>3. RowFor(tokens[i], placed) = x.row
        BY Zenon, <3>1, <2>2 DEF RowFor
      <3>4. x.row = o[tokens[i]]
        BY Zenon, <3>2, <1>0
      <3>5. meaning[i] = o[tokens[i]]
        BY Zenon, <2>2, <1>2 DEF TokenRow
      <3> QED
        BY Zenon, <3>3, <3>4, <3>5
    <2> QED
      BY <2>1, <2>2
  <1>4. ASSUME NEW i \in 1..(N - L)
        PROVE  L + i \in 1..N /\ fresh[i] = [id |-> tokens[L + i], row |-> meaning[L + i]] /\ fresh[i] \in Entries
    <2>1. L + i \in 1..N
      BY <1>1
    <2>2. fresh[i] = [id |-> tokens[L + i], row |-> meaning[L + i]]
      BY <2>1, <1>3 DEF MadeNow
    <2> HIDE DEF fresh, N, L
    <2> QED
      BY <2>1, <2>2, <1>2
  <1>5. fresh \in Seq(Entries) /\ Len(fresh) = N - L
    <2>1. fresh \in [1..(N - L) -> Entries]
      <3>1. fresh = [i \in 1..(N - L) |-> fresh[i]]
        BY DEF MadeNow
      <3> HIDE DEF fresh, Entries
      <3> QED
        BY <3>1, <1>4
    <2> HIDE DEF fresh, Entries, N, L
    <2>2. N - L \in Nat
      BY <1>1
    <2>3. \A S, f, n : n \in Nat /\ f \in [1..n -> S] => f \in Seq(S) /\ Len(f) = n
      OBVIOUS
    <2> QED
      BY Zenon, <2>1, <2>2, <2>3
  <1>6. old \in Seq(Entries)
    BY <1>0
  <1> HIDE DEF fresh, Entries
  <1>7. tape \in Seq(Entries) /\ Len(tape) = N
    <2>2. tape \in Seq(Entries)
      BY <1>5, <1>6
    <2>3. Len(tape) = Len(old) + Len(fresh)
      BY <1>5, <1>6
    <2> QED
      BY <2>2, <2>3, <1>5, <1>1
  <1>8. ASSUME NEW i \in 1..N PROVE tape[i].id = tokens[i] /\ tape[i].row = meaning[i]
    <2>1. CASE i <= L
      <3>1. i \in 1..L /\ tape[i] = old[i]
        BY <2>1, <1>1, <1>5, <1>6
      <3> HIDE DEF tape
      <3>2. old[i].id = tokens[i] /\ old[i].row = TokenRow(tokens[i], o)
        BY <3>1, <1>0
      <3> QED
        BY Zenon, <3>1, <3>2, <1>2
    <2>2. CASE ~ (i <= L)
      <3>1. i - L \in 1..(N - L) /\ L + (i - L) = i
        BY <2>2, <1>1
      <3>2. tape[i] = fresh[i - L]
        BY <2>2, <3>1, <1>1, <1>5, <1>6
      <3>3. fresh[i - L] = [id |-> tokens[i], row |-> meaning[i]]
        BY <3>1, <1>4
      <3> HIDE DEF tape
      <3> QED
        BY <3>2, <3>3
    <2> QED
      BY <2>1, <2>2
  <1> HIDE DEF tape
  <1>9. TapeOwned(tape, o, next)
    <2>1. \A i \in 1..Len(tape) : tape[i].id < next /\ tape[i].row = TokenRow(tape[i].id, o)
      BY <1>7, <1>8, <1>2
    <2>2. tape \in Seq([id : Nat, row : Places])
      BY Zenon, <1>7 DEF Entries
    <2> QED
      BY Zenon, <2>1, <2>2 DEF TapeOwned
  <1>10. Carries(tape, tokens, meaning)
    BY Zenon, <1>7, <1>8 DEF Carries
  <1> QED
    BY Zenon, <1>9, <1>10 DEF tape, fresh

\* What a turn shows, it shows as the prompt has it.
LEMMA TapeShows ==
    ASSUME NEW next \in Nat, NEW o \in Owners(next), NEW placed, NEW tokens, NEW meaning,
           Mean(tokens, meaning, o, next, placed), NEW tape, TapeOwned(tape, o, next), Carries(tape, tokens, meaning)
    PROVE  RowsOf(tape) = meaning /\ CanonicalTape(IdsOf(tape)) = FormOf(meaning)
  <1>0. /\ tokens \in Seq(Nat) /\ meaning \in Seq(Places) /\ Len(tokens) = Len(meaning) /\ Len(tape) = Len(tokens)
        /\ \A i \in 1..Len(tokens) : tape[i].id = tokens[i] /\ tape[i].row = meaning[i]
    BY Zenon DEF Mean, Carries
  <1> DEFINE N == Len(tokens)
  <1>1. N \in Nat /\ DOMAIN tape = 1..N /\ DOMAIN meaning = 1..N /\ meaning = [i \in 1..N |-> meaning[i]]
    BY <1>0 DEF TapeOwned
  <1>2. RowsOf(tape) = meaning
    BY <1>0, <1>1 DEF RowsOf
  <1>3. ASSUME NEW i \in 1..N
        PROVE  (IF tape[i].id < FirstId THEN tape[i].id ELSE 0) = IF meaning[i][1] = "text" THEN meaning[i][2] ELSE 0
    <2>1. tokens[i] \in Nat /\ tape[i].id = tokens[i] /\ meaning[i] = TokenRow(tokens[i], o) /\ tokens[i] < next
      <3> DEFINE m == <<tokens[i], meaning[i]>>
      <3>1. m \in Meant(o, next, placed) /\ m[1] = tokens[i] /\ m[2] = meaning[i]
        BY DEF Mean
      <3> HIDE DEF m
      <3>2. m[1] < next /\ m[2] = TokenRow(m[1], o)
        BY <3>1 DEF Meant
      <3> QED
        BY <3>1, <3>2, <1>0
    <2>2. CASE tokens[i] < FirstId
      <3>1. meaning[i] = <<"text", tokens[i]>>
        BY <2>1, <2>2 DEF TokenRow
      <3> QED
        BY <3>1, <2>1, <2>2
    <2>3. CASE ~ (tokens[i] < FirstId)
      <3>1. tokens[i] \in FirstId..(next - 1) /\ meaning[i] = o[tokens[i]]
        BY <2>1, <2>3 DEF TokenRow, FirstId
      <3>2. o[tokens[i]] \in Photos \X Nat
        BY <3>1 DEF Owners
      <3>3. meaning[i][1] \in Photos
        BY <3>1, <3>2
      <3>4. meaning[i][1] # "text"
        BY <3>3, PhotosAssumption
      <3> QED
        BY <3>4, <2>1, <2>3
    <2> QED
      BY <2>2, <2>3
  <1> DEFINE ids == IdsOf(tape)
  <1>4. DOMAIN ids = 1..N /\ \A i \in 1..N : ids[i] = tape[i].id
    BY <1>1 DEF IdsOf
  <1> HIDE DEF ids, N
  <1>5. CanonicalTape(ids) = [i \in 1..N |-> IF tape[i].id < FirstId THEN tape[i].id ELSE 0]
    BY <1>4 DEF CanonicalTape
  <1>6. FormOf(meaning) = [i \in 1..N |-> IF meaning[i][1] = "text" THEN meaning[i][2] ELSE 0]
    BY <1>1 DEF FormOf
  <1> QED
    <2>1. CanonicalTape(ids) = FormOf(meaning)
      BY <1>3, <1>5, <1>6
    <2> QED
      BY Zenon, <2>1, <1>2 DEF ids

\* A turn that is refused: the pictures before the first bad one stay embedded.
LEMMA RefusedKeeps ==
    ASSUME PicturesInv, NEW photos \in Seq(Photos),
           embedded' = EmbedAll(photos).items, nextId' = EmbedAll(photos).next,
           UNCHANGED <<tapes, showing, engine>>
    PROVE  PicturesInv'
  <1> DEFINE done == EmbedAll(photos)
  <1>1. PICK o \in Owners(nextId) :
           ItemsOwned(embedded, o, nextId) /\ \A tape \in tapes : TapeOwned(tape, o, nextId)
    BY DEF PicturesInv
  <1>2. PICK o2 : Extends(o2, o, nextId) /\ TurnOwned(done, o2, photos, Len(photos))
    <2>1. nextId \in Nat /\ FirstId <= nextId /\ Fits(embedded)
      BY DEF PicturesInv
    <2> HIDE DEF done
    <2> QED
      BY <1>1, <2>1, EmbedAllKeeps DEF done
  <1> HIDE DEF done
  <1>3. /\ nextId' = done.next /\ embedded' = done.items /\ tapes' = tapes /\ showing' = showing /\ engine' = engine
    BY DEF done
  <1>4. /\ nextId \in Nat /\ FirstId <= nextId /\ done.next \in Nat /\ nextId <= done.next /\ o2 \in Owners(done.next)
        /\ ItemsOwned(done.items, o2, done.next) /\ Fits(done.items) /\ ShowsItsPictures
    BY <1>2 DEF TurnOwned, PicturesInv
  <1>5. \A tape \in tapes : TapeOwned(tape, o2, done.next)
    BY <1>1, <1>2, <1>4, TapeStaysOwned
  <1>6. nextId' \in Nat /\ FirstId <= nextId'
    BY <1>3, <1>4 DEF FirstId
  <1>7. Fits(embedded)'
    BY <1>3, <1>4 DEF Fits
  <1>8. ShowsItsPictures'
    BY <1>3, <1>4 DEF ShowsItsPictures
  <1>9. o2 \in Owners(nextId') /\ ItemsOwned(embedded', o2, nextId') /\ \A tape \in tapes' : TapeOwned(tape, o2, nextId')
    BY Zenon, <1>3, <1>4, <1>5
  <1> QED
    BY Zenon, <1>6, <1>7, <1>8, <1>9 DEF PicturesInv

\* A turn that is run: what it embeds has owners, and its tape is right.
LEMMA TurnRight ==
    ASSUME PicturesInv, NEW parts, Parts(parts)
    PROVE  LET done == EmbedAll(EachOnce(parts))
               tokens == RenderParts(parts, done.used)
               old == Reused(tokens)
               tape == old \o MadeNow(tokens, old, PlacedRows(done.used))
           IN  /\ done.next \in Nat /\ FirstId <= done.next /\ Fits(done.items)
               /\ RowsOf(tape) = Meaning(parts) /\ CanonicalTape(IdsOf(tape)) = FormOf(Meaning(parts))
               /\ \E o \in Owners(done.next) :
                     /\ ItemsOwned(done.items, o, done.next) /\ TapeOwned(tape, o, done.next)
                     /\ \A r \in tapes : TapeOwned(r, o, done.next)
  <1> DEFINE asked == EachOnce(parts)
             done == EmbedAll(asked)
             placed == PlacedRows(done.used)
             next == done.next
             meaning == Meaning(parts)
             tokens == RenderParts(parts, done.used)
             old == Reused(tokens)
             tape == old \o MadeNow(tokens, old, placed)
  <1>1. PICK o \in Owners(nextId) : ItemsOwned(embedded, o, nextId) /\ \A r \in tapes : TapeOwned(r, o, nextId)
    BY DEF PicturesInv
  <1>2. asked \in Seq(Photos) /\ \A i \in 1..Len(parts) : parts[i] # "text" => Has(asked, parts[i])
    BY EachOnceHasAll
  <1> HIDE DEF asked, done, placed, next, meaning, tokens, old, tape
  <1>3. PICK o2 : Extends(o2, o, nextId) /\ TurnOwned(done, o2, asked, Len(asked))
    <2>1. nextId \in Nat /\ FirstId <= nextId /\ Fits(embedded)
      BY DEF PicturesInv
    <2>2. \E o2 : Extends(o2, o, nextId) /\ TurnOwned(EmbedAll(asked), o2, asked, Len(asked))
      BY <1>1, <1>2, <2>1, EmbedAllKeeps
    <2> QED
      BY Zenon, <2>2 DEF done
  <1>4. /\ nextId \in Nat /\ FirstId <= nextId /\ next \in Nat /\ nextId <= next /\ FirstId <= next /\ o2 \in Owners(next)
        /\ ItemsOwned(done.items, o2, next) /\ Fits(done.items)
        /\ done.used \in Seq(Records) /\ Len(done.used) = Len(asked)
        /\ \A i \in 1..Len(asked) : done.used[i].photo = asked[i] /\ RecordOwned(done.used[i], o2, next)
    BY <1>3 DEF TurnOwned, PicturesInv, FirstId, next
  <1>5. \A r \in tapes : TapeOwned(r, o2, next)
    BY <1>1, <1>3, <1>4, TapeStaysOwned
  <1>6. \A i \in 1..Len(parts) : parts[i] # "text" => \E j \in 1..Len(done.used) : done.used[j].photo = parts[i]
    BY <1>2, <1>4 DEF Has
  <1>7. Mean(tokens, meaning, o2, next, placed)
    <2>1. \A i \in 1..Len(done.used) : RecordOwned(done.used[i], o2, next)
      BY Zenon, <1>4
    <2> QED
      BY <2>1, <1>4, <1>6, PromptMeans DEF tokens, meaning, placed
  <1>8. RowsOwned(placed, o2, next)
    <2> SUFFICES ASSUME NEW x \in placed PROVE x.id \in FirstId..(next - 1) /\ x.row = o2[x.id]
      BY DEF RowsOwned
    <2>1. PICK i \in DOMAIN done.used : \E k \in DOMAIN done.used[i].ids :
             x = [id |-> done.used[i].ids[k], row |-> <<done.used[i].photo, k>>]
      <3>1. PICK i \in DOMAIN done.used :
               x \in {[id |-> done.used[i].ids[k], row |-> <<done.used[i].photo, k>>] : k \in DOMAIN done.used[i].ids}
        BY DEF PlacedRows, placed
      <3> QED
        BY <3>1
    <2>2. PICK k \in DOMAIN done.used[i].ids : x = [id |-> done.used[i].ids[k], row |-> <<done.used[i].photo, k>>]
      BY <2>1
    <2> DEFINE r == done.used[i]
    <2>3. RecordOwned(r, o2, next)
      <3>1. i \in 1..Len(asked)
        BY <1>4
      <3> QED
        BY Zenon, <3>1, <1>4
    <2> HIDE DEF r
    <2>4. k \in 1..PatchesOf[r.photo]
      <3>1. r.ids \in Seq(Nat) /\ Len(r.ids) = PatchesOf[r.photo] /\ k \in DOMAIN r.ids
        BY <2>3 DEF RecordOwned, Records, r
      <3> QED
        BY <3>1
    <2>5. x.id = r.ids[k] /\ x.row = <<r.photo, k>>
      BY <2>2 DEF r
    <2> QED
      BY <2>3, <2>4, <2>5 DEF RecordOwned
  <1>9. Begins(old, tokens, o2)
    <2>1. tokens \in Seq(Nat)
      BY Zenon, <1>7 DEF Mean
    <2> QED
      BY <2>1, <1>5, ReusedOwned DEF old
  <1>10. TapeOwned(tape, o2, next) /\ Carries(tape, tokens, meaning)
    BY <1>4, <1>7, <1>8, <1>9, TurnTape DEF tape
  <1>11. RowsOf(tape) = meaning /\ CanonicalTape(IdsOf(tape)) = FormOf(meaning)
    BY <1>4, <1>7, <1>10, TapeShows
  <1> QED
    BY Zenon, <1>4, <1>5, <1>10, <1>11 DEF tape, old, tokens, meaning, next, placed, done, asked

\* Every step keeps the invariant.
LEMMA PicturesStep == PicturesInv /\ [PhotosNext]_photoVars => PicturesInv'
  <1> SUFFICES ASSUME PicturesInv, [PhotosNext]_photoVars PROVE PicturesInv'
    OBVIOUS
  <1>1. CASE AskTurn
    <2>0. PICK n \in 1..PromptParts : \E parts \in [1..n -> Photos \cup {"text"}] : \E unsound : Turn(parts, unsound)
      BY <1>1 DEF AskTurn
    <2>1. PICK parts \in [1..n -> Photos \cup {"text"}] : \E unsound : Turn(parts, unsound)
      BY <2>0
    <2>2. PICK unsound : Turn(parts, unsound)
      BY <2>1
    <2>3. Parts(parts)
      <3>1. n \in Nat
        BY PhotosAssumption
      <3> QED
        BY <3>1, <2>1 DEF Parts
    <2> DEFINE asked == EachOnce(parts)
               bad   == {i \in DOMAIN asked : asked[i] \in unsound
                                              /\ ~ (engine = "rollback" /\ IsEmbedded(embedded, asked[i]))}
    <2>4. asked \in Seq(Photos)
      BY <2>3, EachOnceHasAll
    <2>5. CASE bad # {}
      <3> DEFINE photos == SubSeq(asked, 1, Min(bad) - 1)
      <3>1. /\ embedded' = EmbedAll(photos).items /\ nextId' = EmbedAll(photos).next
            /\ UNCHANGED <<tapes, showing, engine>>
        BY Zenon, <2>2, <2>5 DEF Turn
      <3>2. photos \in Seq(Photos)
        <4>1. bad \subseteq DOMAIN asked /\ DOMAIN asked = 1..Len(asked) /\ DOMAIN asked \subseteq Nat
          BY <2>4
        <4>2. Min(bad) \in bad
          <5> HIDE DEF bad, asked
          <5> QED
            BY <2>5, <4>1, MinIsLeast
        <4>3. Min(bad) \in 1..Len(asked)
          BY Zenon, <4>1, <4>2
        <4> HIDE DEF bad, asked
        <4> QED
          BY <4>3, <2>4
      <3> HIDE DEF photos
      <3> QED
        BY <3>1, <3>2, RefusedKeeps
    <2>6. CASE bad = {}
      <3> DEFINE done == EmbedAll(asked)
                 tokens == RenderParts(parts, done.used)
                 old == Reused(tokens)
                 tape == old \o MadeNow(tokens, old, PlacedRows(done.used))
      <3>1. /\ embedded' = done.items /\ nextId' = done.next
            /\ \E left \in LeftOver : tapes' = left \cup {tape}
            /\ showing' = [parts |-> parts, tape |-> tape] /\ engine' = engine
        BY Zenon, <2>2, <2>6 DEF Turn
      <3>2. PICK left \in LeftOver : tapes' = left \cup {tape}
        BY <3>1
      <3>3. left \in SUBSET tapes
        BY Zenon, <3>2 DEF LeftOver
      <3>4. /\ done.next \in Nat /\ FirstId <= done.next /\ Fits(done.items)
            /\ RowsOf(tape) = Meaning(parts) /\ CanonicalTape(IdsOf(tape)) = FormOf(Meaning(parts))
            /\ \E o \in Owners(done.next) :
                  /\ ItemsOwned(done.items, o, done.next) /\ TapeOwned(tape, o, done.next)
                  /\ \A r \in tapes : TapeOwned(r, o, done.next)
        BY Zenon, <2>3, TurnRight
      <3> HIDE DEF tape, done, tokens, old
      <3>5. PICK o \in Owners(done.next) :
               /\ ItemsOwned(done.items, o, done.next) /\ TapeOwned(tape, o, done.next)
               /\ \A r \in tapes : TapeOwned(r, o, done.next)
        BY <3>4
      <3>6. ShowsItsPictures'
        <4>1. showing'.parts = parts /\ showing'.tape = tape
          BY <3>1
        <4> QED
          BY Zenon, <4>1, <3>4 DEF ShowsItsPictures
      <3>7. nextId' \in Nat /\ FirstId <= nextId' /\ Fits(embedded)'
        BY <3>1, <3>4 DEF Fits
      <3>8. o \in Owners(nextId') /\ ItemsOwned(embedded', o, nextId') /\ \A r \in tapes' : TapeOwned(r, o, nextId')
        BY <3>1, <3>2, <3>3, <3>5
      <3> QED
        BY Zenon, <3>6, <3>7, <3>8 DEF PicturesInv
    <2> QED
      BY <2>5, <2>6
  <1>2. CASE VisionRestart
    <2>1. embedded' = <<>> /\ nextId' = FirstId /\ tapes' = {} /\ showing' = <<>> /\ engine' = engine
      BY <1>2 DEF VisionRestart
    <2>2. nextId' \in Nat /\ FirstId <= nextId'
      BY <2>1 DEF FirstId
    <2>3. Fits(embedded)'
      BY <2>1, PhotosAssumption DEF Fits
    <2>4. ShowsItsPictures'
      BY <2>1 DEF ShowsItsPictures
    <2> DEFINE o == [id \in FirstId..(FirstId - 1) |-> <<id, 0>>]
    <2>5. o \in Owners(FirstId)
      BY DEF Owners, FirstId
    <2>6. ItemsOwned(<<>>, o, FirstId)
      BY DEF ItemsOwned
    <2> HIDE DEF o
    <2>7. ItemsOwned(embedded', o, nextId') /\ o \in Owners(nextId') /\ \A tape \in tapes' : TapeOwned(tape, o, nextId')
      BY <2>1, <2>5, <2>6
    <2> QED
      BY Zenon, <2>2, <2>3, <2>4, <2>7 DEF PicturesInv
  <1>3. CASE UNCHANGED photoVars
    <2>1. UNCHANGED <<engine, embedded, nextId, tapes, showing>>
      BY <1>3 DEF photoVars
    <2> QED
      BY <2>1 DEF PicturesInv, Fits, ShowsItsPictures
  <1> QED
    BY <1>1, <1>2, <1>3 DEF PhotosNext

\* What the invariant says of the pictures.
LEMMA PicturesInvImplies == PicturesInv => OwnPictures
  <1> SUFFICES ASSUME PicturesInv PROVE OwnPictures
    OBVIOUS
  <1>1. PICK o \in Owners(nextId) : ItemsOwned(embedded, o, nextId)
    BY DEF PicturesInv
  <1>2. NoIdOfTwo
    <2> SUFFICES ASSUME NEW i \in DOMAIN embedded, NEW j \in DOMAIN embedded, i # j,
                        NEW id \in ToSet(embedded[i].ids), id \in ToSet(embedded[j].ids)
                 PROVE  FALSE
      BY DEF NoIdOfTwo
    <2>0. i \in 1..Len(embedded) /\ j \in 1..Len(embedded)
      BY <1>1 DEF ItemsOwned
    <2> DEFINE r == embedded[i]
               s == embedded[j]
    <2>1. RecordOwned(r, o, nextId) /\ RecordOwned(s, o, nextId) /\ r.photo # s.photo
      BY <1>1, <2>0 DEF ItemsOwned
    <2>2. id \in ToSet(r.ids) /\ id \in ToSet(s.ids)
      OBVIOUS
    <2> HIDE DEF r, s
    <2>3. PICK k \in DOMAIN r.ids : r.ids[k] = id
      BY <2>2 DEF ToSet
    <2>4. PICK m \in DOMAIN s.ids : s.ids[m] = id
      BY <2>2 DEF ToSet
    <2>5. k \in 1..PatchesOf[r.photo] /\ m \in 1..PatchesOf[s.photo]
      BY <2>1, <2>3, <2>4 DEF RecordOwned, Records
    <2>6. o[id] = <<r.photo, k>> /\ o[id] = <<s.photo, m>>
      BY <2>1, <2>3, <2>4, <2>5 DEF RecordOwned
    <2> QED
      BY <2>1, <2>6
  <1>3. CacheBounded /\ ShowsItsPictures
    BY DEF PicturesInv, Fits, CacheBounded
  <1> QED
    BY <1>2, <1>3 DEF OwnPictures

(* For any pictures, sizes, prompts and any size of the cache: the model sees  *)
(* at each place of a prompt the picture that is there, whatever was evicted,  *)
(* embedded again or reused, and what is kept of a turn has no process in it   *)
(* (qwasar_runtime/vision.py, engine/forward/vision_tower.py, worker.py).      *)
THEOREM PicturesAreOwn == PhotosSpec => []OwnPictures
  <1> QED
    BY PicturesStart, PicturesStep, PicturesInvImplies, PTL DEF PhotosSpec

=============================================================================
