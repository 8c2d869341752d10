------------------------------- MODULE ShellProofs -------------------------------
(***************************************************************************)
(* The app shell, for every set of places and heights, any number of       *)
(* windows and steps: what the Overlay shows of privacy, click-through,    *)
(* size and the interview is so once the messages between the processes    *)
(* have arrived.  Each of the four invariants says what those that are on  *)
(* their way will make of the state they meet.                             *)
(***************************************************************************)
EXTENDS Shell, TLAPS, SequenceTheorems, WellFoundedInduction

-----------------------------------------------------------------------------
(* Shapes *)

CallRecord ==
    [type : {"height"}, value : Nat]
    \cup [type : {"collapsed", "private", "clickthrough", "move", "start", "stop", "quit"},
          value : BOOLEAN]

EventRecord == [type : {"started", "ended", "clickthrough"}, value : BOOLEAN]

\* An Overlay that is not mounted is as it begins.
Fresh(u) == ~u.private \/ u.stealth \/ u.content # Fewest => OverlayMounted(u)

ShapeInv ==
    /\ ShellTypeOK
    /\ ipc \in Seq(CallRecord)
    /\ events \in Seq(EventRecord)
    /\ Fresh(ui)
    /\ ~win.exists => ui = NewUi

-----------------------------------------------------------------------------
(* What is on the way.  Of the messages of some types in a queue only the    *)
(* last matters in the end.                                                  *)

Absent(q, T) == \A i \in DOMAIN q : q[i].type \notin T

\* The last message of q with a type in T is m.
LastOf(q, T, m) ==
    \E i \in DOMAIN q : q[i] = m /\ \A j \in DOMAIN q : j > i => q[j].type \notin T

\* Private mode that is shown as on is on, or will be once the calls on their
\* way are handled.
PrivateInv ==
    OverlayMounted(ui) /\ ui.private =>
        \/ LastOf(ipc, {"private"}, Call("private", TRUE))
        \/ Absent(ipc, {"private"}) /\ win.protected

\* The last click-through event is about the window as it is.
StealthInv ==
    /\ \/ Absent(events, {"clickthrough"})
       \/ LastOf(events, {"clickthrough"}, Call("clickthrough", win.ignoring))
    /\ Absent(events, {"clickthrough"}) /\ Absent(ipc, {"clickthrough"}) /\ ui.stealth
          => win.ignoring

\* An end the Overlay will hear of is the last news on its way.
News == {"started", "ended"}

EndedInv ==
    session = "over" /\ ~history.missed =>
        \/ LastOf(events, News, Call("ended", TRUE))
        \/ Absent(events, News) /\ ui.phase # "interview"

-----------------------------------------------------------------------------
(* What the calls on their way make of the window *)

\* The course of the window: whether it is collapsed, and the height it has or
\* returns to.
Course == [collapsed : BOOLEAN, height : Int]

\* The pill alone is moved, and collapse and expand take turns.
Turns(c, s, t) ==
    /\ c.type = "collapsed" => c.value = ~s.collapsed
    /\ c.type = "move" => s.collapsed
    /\ t.collapsed = IF c.type = "collapsed" THEN c.value ELSE s.collapsed
    /\ t.height = IF c.type # "height" \/ s.collapsed \/ Near(Clamped(c.value), s.height)
                  THEN s.height ELSE Clamped(c.value)

\* Handling the calls of q leads from s to t.
Leads(q, s, t) ==
    \E f \in [0..Len(q) -> Course] :
        /\ f[0] = s
        /\ f[Len(q)] = t
        /\ \A i \in 1..Len(q) : Turns(q[i], f[i-1], f[i])

\* The course the window is on
Here == [collapsed |-> manager.collapsed,
         height |-> IF manager.collapsed THEN manager.expanded.height ELSE win.bounds.height]

\* A course that suits what is rendered
Suits(u, t) ==
    /\ t.collapsed = u.collapsed
    /\ ~u.collapsed => Near(t.height, Clamped(ScreenHeight(u)))

\* The window is the pill exactly while the manager has it collapsed, and then
\* the manager knows where it was left.
Placed ==
    /\ win.bounds.pill = manager.collapsed
    /\ manager.collapsed =>
          /\ win.bounds.height = COLLAPSED_SIZE
          /\ manager.expanded \in Bounds
          /\ manager.expanded.at = history.left
          /\ ~manager.expanded.pill
    /\ ~manager.collapsed => win.bounds.at = history.left

WindowInv ==
    win.exists /\ ~history.stale =>
        Placed /\ \E t \in Course : Leads(ipc, Here, t) /\ Suits(ui, t)

-----------------------------------------------------------------------------
(* Queues *)

\* What is in a queue that others were added to, or the head taken from
LEMMA Joined ==
    ASSUME NEW S, NEW q \in Seq(S), NEW r \in Seq(S)
    PROVE  /\ q \o r \in Seq(S)
           /\ Len(q \o r) = Len(q) + Len(r)
           /\ \A i \in 1..Len(q) : (q \o r)[i] = q[i]
           /\ \A i \in 1..Len(r) : (q \o r)[Len(q) + i] = r[i]
OBVIOUS

\* The same of the queue without its head
LEMMA Taken ==
    ASSUME NEW S, NEW q \in Seq(S), q # <<>>
    PROVE  /\ Tail(q) \in Seq(S)
           /\ Head(q) = q[1] /\ Head(q) \in S
           /\ Len(q) >= 1 /\ Len(Tail(q)) = Len(q) - 1
           /\ \A i \in 1..Len(Tail(q)) : Tail(q)[i] = q[i + 1]
OBVIOUS

\* A type is absent from what was put together exactly if it is from the parts.
LEMMA AbsentJoined ==
    ASSUME NEW S, NEW q \in Seq(S), NEW r \in Seq(S), NEW T
    PROVE  Absent(q \o r, T) <=> Absent(q, T) /\ Absent(r, T)
<1>1. /\ Len(q \o r) = Len(q) + Len(r) /\ q \o r \in Seq(S)
      /\ Len(q) \in Nat /\ Len(r) \in Nat
      /\ \A i \in 1..Len(q) : (q \o r)[i] = q[i]
      /\ \A i \in 1..Len(r) : (q \o r)[Len(q) + i] = r[i]
  BY Joined
<1>2. DOMAIN q = 1..Len(q) /\ DOMAIN r = 1..Len(r) /\ DOMAIN (q \o r) = 1..Len(q) + Len(r)
  BY <1>1
<1>3. ASSUME Absent(q \o r, T) PROVE Absent(q, T) /\ Absent(r, T)
  <2>1. \A i \in 1..Len(q) : i \in 1..Len(q) + Len(r)
    BY <1>1
  <2>2. \A i \in 1..Len(r) : Len(q) + i \in 1..Len(q) + Len(r)
    BY <1>1
  <2> QED
    BY <1>1, <1>2, <1>3, <2>1, <2>2 DEF Absent
<1>4. ASSUME Absent(q, T), Absent(r, T), NEW k \in 1..Len(q) + Len(r)
      PROVE  (q \o r)[k].type \notin T
  <2>1. CASE k \in 1..Len(q)
    BY <1>1, <1>2, <1>4, <2>1 DEF Absent
  <2>2. CASE k \notin 1..Len(q)
    <3>1. k - Len(q) \in 1..Len(r) /\ k = Len(q) + (k - Len(q))
      BY <1>1, <2>2
    <3> QED
      BY <1>1, <1>2, <1>4, <3>1 DEF Absent
  <2> QED
    BY <2>1, <2>2
<1> QED
  BY <1>2, <1>3, <1>4 DEF Absent

\* The last message stays the last if none of its types is added.
LEMMA LastJoined ==
    ASSUME NEW S, NEW q \in Seq(S), NEW r \in Seq(S), NEW T, NEW m,
           LastOf(q, T, m), Absent(r, T)
    PROVE  LastOf(q \o r, T, m)
<1>1. /\ Len(q \o r) = Len(q) + Len(r) /\ q \o r \in Seq(S)
      /\ Len(q) \in Nat /\ Len(r) \in Nat
      /\ \A i \in 1..Len(q) : (q \o r)[i] = q[i]
      /\ \A i \in 1..Len(r) : (q \o r)[Len(q) + i] = r[i]
  BY Joined
<1>2. DOMAIN q = 1..Len(q) /\ DOMAIN r = 1..Len(r) /\ DOMAIN (q \o r) = 1..Len(q) + Len(r)
  BY <1>1
<1>3. PICK i \in 1..Len(q) : q[i] = m /\ \A j \in 1..Len(q) : j > i => q[j].type \notin T
  BY <1>2 DEF LastOf
<1>4. i \in 1..Len(q) + Len(r) /\ (q \o r)[i] = m
  BY <1>1, <1>3
<1>5. ASSUME NEW k \in 1..Len(q) + Len(r), k > i
      PROVE  (q \o r)[k].type \notin T
  <2>1. CASE k \in 1..Len(q)
    BY <1>1, <1>3, <1>5, <2>1
  <2>2. CASE k \notin 1..Len(q)
    <3>1. k - Len(q) \in 1..Len(r) /\ k = Len(q) + (k - Len(q))
      BY <1>1, <2>2
    <3> QED
      BY <1>1, <1>2, <3>1 DEF Absent
  <2> QED
    BY <2>1, <2>2
<1> QED
  BY <1>2, <1>4, <1>5 DEF LastOf

\* The last of what is added is the last of all.
LEMMA LastAdded ==
    ASSUME NEW S, NEW q \in Seq(S), NEW r \in Seq(S), NEW T, NEW m, LastOf(r, T, m)
    PROVE  LastOf(q \o r, T, m)
<1>1. /\ Len(q \o r) = Len(q) + Len(r) /\ q \o r \in Seq(S)
      /\ Len(q) \in Nat /\ Len(r) \in Nat
      /\ \A i \in 1..Len(r) : (q \o r)[Len(q) + i] = r[i]
  BY Joined
<1>2. DOMAIN r = 1..Len(r) /\ DOMAIN (q \o r) = 1..Len(q) + Len(r)
  BY <1>1
<1>3. PICK i \in 1..Len(r) : r[i] = m /\ \A j \in 1..Len(r) : j > i => r[j].type \notin T
  BY <1>2 DEF LastOf
<1>4. Len(q) + i \in 1..Len(q) + Len(r) /\ (q \o r)[Len(q) + i] = m
  BY <1>1, <1>3
<1>5. ASSUME NEW k \in 1..Len(q) + Len(r), k > Len(q) + i
      PROVE  (q \o r)[k].type \notin T
  <2>1. k - Len(q) \in 1..Len(r) /\ k = Len(q) + (k - Len(q)) /\ k - Len(q) > i
    BY <1>1, <1>3, <1>5
  <2> QED
    BY <1>1, <1>3, <2>1
<1> QED
  BY <1>2, <1>4, <1>5 DEF LastOf

\* Without its head a queue has the same last message, unless that was the head.
LEMMA LastTaken ==
    ASSUME NEW S, NEW q \in Seq(S), q # <<>>, NEW T, NEW m, LastOf(q, T, m)
    PROVE  \/ Head(q) = m /\ Absent(Tail(q), T)
           \/ LastOf(Tail(q), T, m)
<1>1. /\ Tail(q) \in Seq(S) /\ Head(q) = q[1]
      /\ Len(q) \in Nat /\ Len(q) >= 1 /\ Len(Tail(q)) = Len(q) - 1
      /\ \A i \in 1..Len(q) - 1 : Tail(q)[i] = q[i + 1]
  BY Taken
<1>2. DOMAIN q = 1..Len(q) /\ DOMAIN Tail(q) = 1..Len(q) - 1
  BY <1>1
<1>3. PICK i \in 1..Len(q) : q[i] = m /\ \A j \in 1..Len(q) : j > i => q[j].type \notin T
  BY <1>2 DEF LastOf
<1>4. ASSUME NEW j \in 1..Len(q) - 1, j + 1 > i PROVE Tail(q)[j].type \notin T
  <2>1. j + 1 \in 1..Len(q) /\ j + 1 > i
    BY <1>1, <1>4
  <2> QED
    BY <1>1, <1>3, <2>1
<1>5. CASE i = 1
  <2>1. \A j \in 1..Len(q) - 1 : j + 1 > i
    BY <1>1, <1>5
  <2> QED
    BY <1>1, <1>2, <1>3, <1>4, <1>5, <2>1 DEF Absent
<1>6. CASE i # 1
  <2>1. i - 1 \in 1..Len(q) - 1 /\ (i - 1) + 1 = i
    BY <1>1, <1>6
  <2>2. Tail(q)[i - 1] = m
    BY <1>1, <1>3, <2>1
  <2>3. \A j \in 1..Len(q) - 1 : j > i - 1 => j + 1 > i
    BY <1>1
  <2> QED
    BY <1>2, <1>4, <2>1, <2>2, <2>3 DEF LastOf
<1> QED
  BY <1>5, <1>6

\* Nor is there more in it than before.
LEMMA AbsentTaken ==
    ASSUME NEW S, NEW q \in Seq(S), q # <<>>, NEW T, Absent(q, T)
    PROVE  Absent(Tail(q), T) /\ Head(q).type \notin T
<1>1. /\ Tail(q) \in Seq(S) /\ Head(q) = q[1]
      /\ Len(q) \in Nat /\ Len(q) >= 1 /\ Len(Tail(q)) = Len(q) - 1
      /\ \A i \in 1..Len(q) - 1 : Tail(q)[i] = q[i + 1]
  BY Taken
<1>2. DOMAIN q = 1..Len(q) /\ DOMAIN Tail(q) = 1..Len(q) - 1
  BY <1>1
<1>3. \A i \in 1..Len(q) - 1 : i + 1 \in 1..Len(q)
  BY <1>1
<1> QED
  BY <1>1, <1>2, <1>3 DEF Absent

\* A queue of one message
LEMMA Single ==
    ASSUME NEW m, NEW T
    PROVE  /\ Absent(<<m>>, T) <=> m.type \notin T
           /\ LastOf(<<m>>, T, m)
           /\ Absent(<<>>, T)
BY DEF Absent, LastOf

\* A message is added to a queue.
LEMMA Appended ==
    ASSUME NEW S, NEW q \in Seq(S), NEW m \in S, NEW T
    PROVE  /\ Append(q, m) \in Seq(S)
           /\ LastOf(Append(q, m), T, m)
           /\ Absent(Append(q, m), T) <=> Absent(q, T) /\ m.type \notin T
           /\ \A l : LastOf(q, T, l) /\ m.type \notin T => LastOf(Append(q, m), T, l)
<1>1. Append(q, m) = q \o <<m>> /\ <<m>> \in Seq(S)
  OBVIOUS
<1>2. Append(q, m) \in Seq(S)
  OBVIOUS
<1>3. LastOf(q \o <<m>>, T, m)
  BY <1>1, Single, LastAdded
<1>4. Absent(q \o <<m>>, T) <=> Absent(q, T) /\ m.type \notin T
  BY <1>1, Single, AbsentJoined
<1>5. ASSUME NEW l, LastOf(q, T, l), m.type \notin T PROVE LastOf(q \o <<m>>, T, l)
  BY <1>1, <1>5, Single, LastJoined
<1> QED
  BY <1>1, <1>2, <1>3, <1>4, <1>5

\* Two messages are one after the other.
LEMMA InTurn == ASSUME NEW a, NEW b PROVE <<a>> \o <<b>> = <<a, b>>
<1> DEFINE S == {a, b}
           q == <<a>> \o <<b>>
           r == <<a, b>>
<1>1. <<a>> \in Seq(S) /\ <<b>> \in Seq(S) /\ r \in Seq(S)
  OBVIOUS
<1>2. q \in Seq(S) /\ Len(q) = 2 /\ q[1] = a /\ q[2] = b
  <2>1. Len(<<a>>) = 1 /\ Len(<<b>>) = 1 /\ <<a>>[1] = a /\ <<b>>[1] = b
    OBVIOUS
  <2>2. /\ q \in Seq(S) /\ Len(q) = 1 + 1
        /\ \A i \in 1..1 : q[i] = <<a>>[i]
        /\ \A i \in 1..1 : q[1 + i] = <<b>>[i]
    BY <1>1, <2>1, Joined
  <2>3. 1 \in 1..1 /\ 1 + 1 = 2
    OBVIOUS
  <2> HIDE DEF q
  <2> QED
    BY <2>1, <2>2, <2>3
<1>3. Len(r) = 2 /\ r[1] = a /\ r[2] = b
  OBVIOUS
<1> HIDE DEF q, r
<1>4. \A i \in 1..2 : i = 1 \/ i = 2
  OBVIOUS
<1>5. \A i \in 1..Len(q) : q[i] = r[i]
  BY <1>2, <1>3, <1>4
<1>6. q = r
  BY <1>1, <1>2, <1>3, <1>5, SeqEqual
<1> QED
  BY <1>6 DEF q, r

\* What is absent from the head and from the rest is absent.
LEMMA AbsentBack ==
    ASSUME NEW S, NEW q \in Seq(S), q # <<>>, NEW T, Absent(Tail(q), T), Head(q).type \notin T
    PROVE  Absent(q, T)
<1>1. /\ Tail(q) \in Seq(S) /\ Head(q) = q[1]
      /\ Len(q) \in Nat /\ Len(q) >= 1 /\ Len(Tail(q)) = Len(q) - 1
      /\ \A i \in 1..Len(q) - 1 : Tail(q)[i] = q[i + 1]
  BY Taken
<1>2. DOMAIN q = 1..Len(q) /\ DOMAIN Tail(q) = 1..Len(q) - 1
  BY <1>1
<1>3. ASSUME NEW i \in 1..Len(q), i # 1 PROVE q[i].type \notin T
  <2>1. i - 1 \in 1..Len(q) - 1 /\ (i - 1) + 1 = i
    BY <1>1, <1>3
  <2> QED
    BY <1>1, <1>2, <2>1 DEF Absent
<1> QED
  BY <1>1, <1>2, <1>3 DEF Absent

\* The last message of some types is one of them.
LEMMA LastThere ==
    ASSUME NEW q, NEW T, NEW m, LastOf(q, T, m), m.type \in T
    PROVE  ~Absent(q, T)
BY DEF LastOf, Absent

-----------------------------------------------------------------------------
(* Courses *)

\* No calls change nothing, and one call takes its turn.
LEMMA LeadsSingle ==
    ASSUME NEW s \in Course
    PROVE  /\ Leads(<<>>, s, s)
           /\ \A c, t : t \in Course /\ Turns(c, s, t) => Leads(<<c>>, s, t)
<1>1. Leads(<<>>, s, s)
  <2> DEFINE f == [i \in 0..0 |-> s]
  <2>1. f \in [0..0 -> Course] /\ f[0] = s /\ Len(<<>>) = 0 /\ 1..0 = {}
    OBVIOUS
  <2> HIDE DEF f
  <2> QED
    BY <2>1 DEF Leads
<1>2. ASSUME NEW c, NEW t \in Course, Turns(c, s, t) PROVE Leads(<<c>>, s, t)
  <2> DEFINE f == [i \in 0..1 |-> IF i = 0 THEN s ELSE t]
  <2>1. f \in [0..1 -> Course] /\ f[0] = s /\ f[1] = t /\ Len(<<c>>) = 1
    OBVIOUS
  <2> HIDE DEF f
  <2>2. \A i \in 1..1 : i = 1 /\ i - 1 = 0 /\ <<c>>[i] = c
    OBVIOUS
  <2>3. \A i \in 1..1 : Turns(<<c>>[i], f[i-1], f[i])
    BY <1>2, <2>1, <2>2
  <2> QED
    BY <2>1, <2>3 DEF Leads
<1> QED
  BY <1>1, <1>2

\* One queue after the other
LEMMA LeadsOn ==
    ASSUME NEW S, NEW q \in Seq(S), NEW r \in Seq(S), NEW s, NEW t, NEW u,
           Leads(q, s, t), Leads(r, t, u)
    PROVE  Leads(q \o r, s, u)
<1> DEFINE a == Len(q)
           b == Len(r)
<1>1. /\ Len(q \o r) = a + b /\ a \in Nat /\ b \in Nat
      /\ \A i \in 1..a : (q \o r)[i] = q[i]
      /\ \A i \in 1..b : (q \o r)[a + i] = r[i]
  BY Joined
<1>2. PICK f \in [0..a -> Course] :
         f[0] = s /\ f[a] = t /\ \A i \in 1..a : Turns(q[i], f[i-1], f[i])
  BY DEF Leads
<1>3. PICK g \in [0..b -> Course] :
         g[0] = t /\ g[b] = u /\ \A i \in 1..b : Turns(r[i], g[i-1], g[i])
  BY DEF Leads
<1> DEFINE h == [i \in 0..(a + b) |-> IF i <= a THEN f[i] ELSE g[i - a]]
<1> HIDE DEF a, b
<1>4. /\ h \in [0..(a + b) -> Course]
      /\ \A i \in 0..a : h[i] = f[i]
  <2>1. ASSUME NEW i \in 0..(a + b) PROVE (IF i <= a THEN f[i] ELSE g[i - a]) \in Course
    <3>1. i <= a => i \in 0..a
      BY <1>1
    <3>2. ~(i <= a) => i - a \in 0..b
      BY <1>1
    <3> QED
      BY <1>2, <1>3, <3>1, <3>2
  <2>2. \A i \in 0..a : i \in 0..(a + b) /\ i <= a
    BY <1>1
  <2> QED
    BY <2>1, <2>2
<1>5. \A i \in 0..b : h[a + i] = g[i]
  <2> TAKE i \in 0..b
  <2>1. a + i \in 0..(a + b) /\ (a + i) - a = i
    BY <1>1
  <2>2. CASE i = 0
    <3>1. h[a] = f[a] /\ a + 0 = a
      BY <1>1, <1>4
    <3> QED
      BY <1>2, <1>3, <2>2, <3>1
  <2>3. CASE i # 0
    <3>1. ~(a + i <= a)
      BY <1>1, <2>3
    <3> QED
      BY <2>1, <3>1
  <2> QED
    BY <2>2, <2>3
<1> HIDE DEF h
<1>6. h[0] = s /\ h[a + b] = u
  BY <1>1, <1>2, <1>3, <1>4, <1>5
<1>7. ASSUME NEW k \in 1..(a + b) PROVE Turns((q \o r)[k], h[k-1], h[k])
  <2>1. CASE k <= a
    <3>1. k \in 1..a /\ k - 1 \in 0..a /\ k \in 0..a
      BY <1>1, <2>1
    <3> QED
      BY <1>1, <1>2, <1>4, <3>1
  <2>2. CASE ~(k <= a)
    <3> DEFINE i == k - a
    <3>1. i \in 1..b /\ i - 1 \in 0..b /\ i \in 0..b /\ k = a + i /\ k - 1 = a + (i - 1)
      BY <1>1, <2>2
    <3> HIDE DEF i
    <3>2. (q \o r)[k] = r[i] /\ h[k] = g[i] /\ h[k-1] = g[i-1]
      BY <1>1, <1>5, <3>1
    <3> QED
      BY <1>3, <3>1, <3>2
  <2> QED
    BY <2>1, <2>2
<1>8. Len(q \o r) = a + b
  BY <1>1
<1> QED
  BY <1>4, <1>6, <1>7, <1>8 DEF Leads

\* The head takes its turn first.
LEMMA LeadsTaken ==
    ASSUME NEW S, NEW q \in Seq(S), q # <<>>, NEW s, NEW t, Leads(q, s, t)
    PROVE  \E m \in Course : Turns(Head(q), s, m) /\ Leads(Tail(q), m, t)
<1> DEFINE a == Len(q) - 1
<1>1. /\ Head(q) = q[1] /\ Len(q) \in Nat /\ Len(q) >= 1 /\ Len(Tail(q)) = a
      /\ a \in Nat /\ Len(q) = a + 1
      /\ \A i \in 1..a : Tail(q)[i] = q[i + 1]
  BY Taken
<1> HIDE DEF a
<1>2. PICK f \in [0..(a + 1) -> Course] :
         f[0] = s /\ f[a + 1] = t /\ \A i \in 1..(a + 1) : Turns(q[i], f[i-1], f[i])
  BY <1>1 DEF Leads
<1> DEFINE h == [i \in 0..a |-> f[i + 1]]
<1>3. \A i \in 0..a : i + 1 \in 0..(a + 1) /\ i + 1 \in 1..(a + 1) /\ (i + 1) - 1 = i
  BY <1>1
<1>4. h \in [0..a -> Course] /\ \A i \in 0..a : h[i] = f[i + 1]
  BY <1>2, <1>3
<1> HIDE DEF h
<1>5. h[0] = f[1] /\ h[a] = t /\ f[1] \in Course
  <2>1. 0 \in 0..a /\ a \in 0..a /\ 0 + 1 = 1
    BY <1>1
  <2> QED
    BY <1>2, <1>3, <1>4, <2>1
<1>6. ASSUME NEW i \in 1..a PROVE Turns(Tail(q)[i], h[i-1], h[i])
  <2>1. i \in 0..a /\ i - 1 \in 0..a /\ (i - 1) + 1 = i
    BY <1>1
  <2>2. h[i] = f[i + 1] /\ h[i - 1] = f[i] /\ Tail(q)[i] = q[i + 1]
    BY <1>1, <1>4, <2>1
  <2>3. Turns(q[i + 1], f[(i + 1) - 1], f[i + 1])
    BY <1>2, <1>3, <2>1
  <2> QED
    BY <1>3, <2>1, <2>2, <2>3
<1>7. Leads(Tail(q), f[1], t)
  BY <1>1, <1>4, <1>5, <1>6 DEF Leads
<1>8. Turns(Head(q), s, f[1])
  <2>1. 1 \in 1..(a + 1) /\ 1 - 1 = 0
    BY <1>1
  <2> QED
    BY <1>1, <1>2, <2>1
<1> QED
  BY <1>5, <1>7, <1>8

-----------------------------------------------------------------------------
(* The shapes of the state *)

\* There is a least height.
LEMMA FewestIs == Fewest \in Content
<1> DEFINE R == OpToRel(<, Nat)
<1>1. IsWellFoundedOn(R, Nat)
  BY NatLessThanWellFounded, Zenon
<1>2. \A x, y \in Nat : x < y => <<x, y>> \in R
  BY DEF OpToRel
<1> HIDE DEF R
<1>3. Content \subseteq Nat /\ Content # {}
  BY ShellAssumption
<1>4. PICK h \in Content : \A g \in Content : ~(<<g, h>> \in R)
  BY <1>1, <1>3, WFMin
<1>5. \A g \in Content : ~(g < h)
  BY <1>2, <1>3, <1>4
<1>6. \A g \in Content : h <= g
  BY <1>3, <1>5
<1> QED
  BY <1>6 DEF Fewest

\* A new renderer's state is one.
LEMMA NewUiIs == NewUi \in Ui /\ Fresh(NewUi) /\ NewUi.phase = "loading" /\ ~NewUi.collapsed
BY FewestIs DEF NewUi, Ui, Phase, Fresh, OverlayMounted

\* Calls are records with a type and a value.
LEMMA CallIs ==
    ASSUME NEW type, NEW value
    PROVE  /\ Call(type, value).type = type
           /\ Call(type, value).value = value
           /\ type = "height" /\ value \in Nat => Call(type, value) \in CallRecord
           /\ type \in {"collapsed", "private", "clickthrough", "move", "start", "stop", "quit"}
                 /\ value \in BOOLEAN => Call(type, value) \in CallRecord
           /\ type \in {"started", "ended", "clickthrough"} /\ value \in BOOLEAN
                 => Call(type, value) \in EventRecord
BY DEF Call, CallRecord, EventRecord

\* What a screen wants to be is a height, and clamping gives one.
LEMMA Heights ==
    /\ \A u \in Ui : ScreenHeight(u) \in Nat
    /\ \A h \in Nat : Clamped(h) \in Int
<1>1. \A u \in Ui : u.content \in Nat
  BY ShellAssumption DEF Ui
<1>2. \A u \in Ui : ScreenHeight(u) \in Nat
  BY <1>1 DEF ScreenHeight
<1> QED
  BY <1>2, WindowAssumption DEF Clamped

\* Of what is rendered, only an Overlay that is not mounted forgets.
LEMMA ForgetsWhat ==
    ASSUME NEW u \in Ui
    PROVE  /\ Forgets(u) \in Ui /\ Fresh(Forgets(u))
           /\ Forgets(u).phase = u.phase /\ Forgets(u).collapsed = u.collapsed
           /\ Forgets(u).step = u.step
           /\ OverlayMounted(Forgets(u)) <=> OverlayMounted(u)
           /\ OverlayMounted(u) => Forgets(u) = u
           /\ ~OverlayMounted(u) => Forgets(u).private /\ ~Forgets(u).stealth
           /\ ~u.collapsed => ScreenHeight(Forgets(u)) = ScreenHeight(u)
<1>1. CASE OverlayMounted(u)
  BY <1>1 DEF Forgets, Fresh, OverlayMounted
<1>2. CASE ~OverlayMounted(u)
  <2>1. Forgets(u) = [u EXCEPT !.private = TRUE, !.stealth = FALSE, !.content = Fewest]
    BY <1>2 DEF Forgets
  <2>2. /\ Forgets(u) \in Ui
        /\ Forgets(u).phase = u.phase /\ Forgets(u).collapsed = u.collapsed
        /\ Forgets(u).step = u.step /\ Forgets(u).private /\ ~Forgets(u).stealth
        /\ Forgets(u).content = Fewest
    BY <2>1, FewestIs DEF Ui
  <2>3. ~OverlayMounted(Forgets(u))
    BY <1>2, <2>2 DEF OverlayMounted
  <2>4. ~u.collapsed => u.phase # "interview"
    BY <1>2 DEF OverlayMounted
  <2>5. ~u.collapsed => ScreenHeight(Forgets(u)) = ScreenHeight(u)
    BY <2>2, <2>4 DEF ScreenHeight
  <2> QED
    BY <1>2, <2>2, <2>3, <2>5 DEF Fresh
<1> QED
  BY <1>1, <1>2

\* A change of the screen that calls for no effect
Unchanged(u, v) ==
    \/ v.collapsed
    \/ v.phase = "interview"
    \/ u.phase = v.phase /\ u.step = v.step /\ u.collapsed = v.collapsed

\* The calls of a screen that sets its height, and of an Overlay that mounts
Resize(v) == Call("height", ScreenHeight(v))
Protect == Call("private", TRUE)

\* They are calls.
LEMMA EffectCalls ==
    ASSUME NEW v \in Ui
    PROVE  /\ Resize(v) \in CallRecord /\ Resize(v).type = "height"
           /\ Resize(v).value = ScreenHeight(v)
           /\ Protect \in CallRecord /\ Protect.type = "private"
BY Heights, CallIs DEF Resize, Protect

\* The effects that follow a change of what is rendered
LEMMA EffectsAre ==
    ASSUME NEW u \in Ui, NEW v \in Ui
    PROVE  /\ OverlayMounted(v) /\ ~OverlayMounted(u) => Effects(u, v) = <<Resize(v), Protect>>
           /\ ~(OverlayMounted(v) /\ ~OverlayMounted(u)) =>
                 Effects(u, v) = <<Resize(v)>> \/ (Effects(u, v) = <<>> /\ Unchanged(u, v))
<1> DEFINE mounts == OverlayMounted(v) /\ ~OverlayMounted(u)
           moves == /\ ~v.collapsed /\ v.phase # "interview"
                    /\ <<u.phase, u.step, u.collapsed>> # <<v.phase, v.step, v.collapsed>>
<1>1. Effects(u, v) = CASE mounts -> <<Resize(v), Protect>> [] moves -> <<Resize(v)>> [] OTHER -> <<>>
  BY Zenon DEF Effects, Resize, Protect
<1>2. ~(mounts /\ moves)
  BY DEF OverlayMounted
<1>3. ~moves => Unchanged(u, v)
  BY DEF Unchanged, Ui
<1> HIDE DEF mounts, moves
<1>4. /\ mounts => Effects(u, v) = <<Resize(v), Protect>>
      /\ ~mounts => Effects(u, v) = <<Resize(v)>> \/ (Effects(u, v) = <<>> /\ ~moves)
  BY <1>1, <1>2
<1> QED
  BY <1>3, <1>4 DEF mounts

\* They are heights, and what a mounting Overlay says of private mode.
LEMMA EffectsSeq ==
    ASSUME NEW u \in Ui, NEW v \in Ui
    PROVE  /\ Effects(u, v) \in Seq(CallRecord)
           /\ ~(OverlayMounted(v) /\ ~OverlayMounted(u)) => Absent(Effects(u, v), {"private"})
           /\ Effects(u, v) = <<>> =>
                 ~(OverlayMounted(v) /\ ~OverlayMounted(u)) /\ Unchanged(u, v)
<1> DEFINE h == Resize(v)
           p == Protect
<1>1. h \in CallRecord /\ h.type = "height" /\ p \in CallRecord /\ p.type = "private"
  BY EffectCalls
<1>2. /\ OverlayMounted(v) /\ ~OverlayMounted(u) => Effects(u, v) = <<h, p>>
      /\ ~(OverlayMounted(v) /\ ~OverlayMounted(u)) =>
            Effects(u, v) = <<h>> \/ (Effects(u, v) = <<>> /\ Unchanged(u, v))
  BY EffectsAre
<1> HIDE DEF h, p
<1>4. <<h, p>> # <<>> /\ <<h>> # <<>>
  <2>1. Len(<<h, p>>) = 2 /\ Len(<<h>>) = 1 /\ Len(<<>>) = 0
    OBVIOUS
  <2> QED
    BY <2>1
<1>3. /\ <<h, p>> \in Seq(CallRecord) /\ <<h>> \in Seq(CallRecord) /\ <<>> \in Seq(CallRecord)
      /\ Absent(<<h>>, {"private"}) /\ Absent(<<>>, {"private"})
  BY <1>1 DEF Absent
<1> QED
  BY <1>2, <1>3, <1>4

\* What is rendered is a state of the renderer, and what it calls are calls.
LEMMA RenderedShape ==
    ASSUME ShapeInv, NEW u \in Ui, NEW calls \in Seq(CallRecord), Renders(calls, u),
           win.exists, UNCHANGED <<windowVars, session>>,
           events' \in Seq(EventRecord), history' \in History
    PROVE  ShapeInv'
<1>1. Effects(ui, u) \in Seq(CallRecord)
  BY EffectsSeq DEF ShapeInv, ShellTypeOK
<1>2. ipc' \in Seq(CallRecord)
  BY <1>1 DEF Renders, ShapeInv
<1>3. ui' \in Ui /\ Fresh(ui')
  BY ForgetsWhat DEF Renders
<1>4. Fresh(ui)'
  BY <1>3 DEF Fresh, OverlayMounted
<1> QED
  BY <1>2, <1>3, <1>4 DEF ShapeInv, ShellTypeOK, windowVars

-----------------------------------------------------------------------------
(* Rendering *)

\* The calls lead the window on as what is rendered says, and its height with
\* the content of an Overlay that stays.
Carries(calls, u) ==
    \A t \in Course : t.collapsed = ui.collapsed =>
        \E m \in Course :
            /\ Leads(calls, t, m)
            /\ m.collapsed = u.collapsed
            /\ \/ m.height = t.height /\ (OverlayMounted(ui) => u.content = ui.content)
               \/ OverlayMounted(u) /\ Near(m.height, Clamped(u.content))

\* What the renderer keeps to, whatever made it render.
Rendering(calls, u) ==
    /\ Renders(calls, u)
    /\ u \in Ui
    /\ calls \in Seq(CallRecord)
    /\ \/ Absent(calls, {"private"}) /\ u.private = ui.private
       \/ calls = <<Call("private", u.private)>>
    /\ Carries(calls, u)

\* What it keeps to when it is the user, or a screen, that made it.
Unheard(calls, u) ==
    /\ Absent(calls, {"clickthrough"}) => u.stealth = ui.stealth
    /\ u.phase = "interview" => ui.phase = "interview"

\* Nothing but the renderer's state and its calls changes.
Alone ==
    /\ win.exists
    /\ UNCHANGED <<windowVars, events, session>>
    /\ history' \in History
    /\ history'.left = history.left /\ history'.missed = history.missed
    /\ history'.stale = history.stale

\* The parts of what is on its way after a rendering
LEMMA RenderedParts ==
    ASSUME ShapeInv, NEW calls, NEW u, Rendering(calls, u)
    PROVE  /\ ipc \in Seq(CallRecord) /\ calls \in Seq(CallRecord)
           /\ Effects(ui, u) \in Seq(CallRecord) /\ ipc \o calls \in Seq(CallRecord)
           /\ u \in Ui /\ ui \in Ui
           /\ ipc' = (ipc \o calls) \o Effects(ui, u) /\ ui' = Forgets(u)
<1>1. ipc \in Seq(CallRecord) /\ calls \in Seq(CallRecord) /\ u \in Ui /\ ui \in Ui
  BY DEF Rendering, ShapeInv, ShellTypeOK
<1>2. Effects(ui, u) \in Seq(CallRecord)
  BY <1>1, EffectsSeq
<1>3. ipc \o calls \in Seq(CallRecord)
  BY <1>1
<1>4. ipc' = (ipc \o calls) \o Effects(ui, u) /\ ui' = Forgets(u)
  BY DEF Rendering, Renders
<1> QED
  BY <1>1, <1>2, <1>3, <1>4

\* Private mode is shown as before, switched by a call, or as a new Overlay
\* switches it.
LEMMA PrivateRendered ==
    ASSUME ShapeInv, PrivateInv, NEW calls, NEW u, Rendering(calls, u),
           win'.protected = win.protected
    PROVE  PrivateInv'
<1> DEFINE T == {"private"}
           p == Protect
           e == Effects(ui, u)
           h == Resize(u)
<1>1. /\ ipc \in Seq(CallRecord) /\ calls \in Seq(CallRecord) /\ e \in Seq(CallRecord)
      /\ ipc \o calls \in Seq(CallRecord) /\ u \in Ui /\ ui \in Ui
  BY RenderedParts
<1>2. ipc' = (ipc \o calls) \o e /\ ui' = Forgets(u)
  BY RenderedParts
<1>3. (OverlayMounted(ui) /\ ui.private)' => OverlayMounted(u) /\ u.private
  <2>1. OverlayMounted(ui)' <=> OverlayMounted(ui')
    BY DEF OverlayMounted
  <2> QED
    BY <1>1, <1>2, <2>1, ForgetsWhat
<1>4. CASE OverlayMounted(u) /\ ~OverlayMounted(ui)
  <2>1. e = <<h, p>>
    BY <1>1, <1>4, EffectsAre
  <2> HIDE DEF h, p, e
  <2>2. LastOf(<<h, p>>, T, p)
    <3>1. DOMAIN <<h, p>> = 1..2 /\ <<h, p>>[2] = p
      OBVIOUS
    <3>2. 2 \in 1..2 /\ \A j \in 1..2 : ~(j > 2)
      OBVIOUS
    <3> QED
      BY <3>1, <3>2 DEF LastOf
  <2>3. LastOf((ipc \o calls) \o e, T, p)
    BY <1>1, <2>1, <2>2, LastAdded
  <2> QED
    BY <1>2, <2>3 DEF PrivateInv, p, Protect
<1>5. CASE OverlayMounted(u) /\ OverlayMounted(ui) /\ u.private
  <2>1. Absent(e, T)
    BY <1>1, <1>5, EffectsSeq
  <2> HIDE DEF e
  <2>2. CASE calls = <<Call("private", u.private)>>
    <3>1. calls = <<p>>
      BY <1>1, <1>5, <2>2 DEF Ui, Protect
    <3> HIDE DEF p
    <3>2. LastOf(calls, T, p)
      BY <3>1, Single
    <3>3. LastOf(ipc \o calls, T, p)
      BY <1>1, <3>2, LastAdded
    <3>4. LastOf((ipc \o calls) \o e, T, p)
      BY <1>1, <2>1, <3>3, LastJoined
    <3> QED
      BY <1>2, <3>4 DEF PrivateInv, p, Protect
  <2>3. CASE Absent(calls, T) /\ u.private = ui.private
    <3>1. LastOf(ipc, T, p) \/ (Absent(ipc, T) /\ win.protected)
      BY <1>5, <2>3 DEF PrivateInv, Protect
    <3> HIDE DEF p
    <3>2. CASE LastOf(ipc, T, p)
      <4>1. LastOf(ipc \o calls, T, p)
        BY <1>1, <2>3, <3>2, LastJoined
      <4>2. LastOf((ipc \o calls) \o e, T, p)
        BY <1>1, <2>1, <4>1, LastJoined
      <4> QED
        BY <1>2, <4>2 DEF PrivateInv, p, Protect
    <3>3. CASE Absent(ipc, T) /\ win.protected
      <4>1. Absent((ipc \o calls) \o e, T)
        BY <1>1, <2>1, <2>3, <3>3, AbsentJoined
      <4> QED
        BY <1>2, <3>3, <4>1 DEF PrivateInv
    <3> QED
      BY <3>1, <3>2, <3>3
  <2> QED
    BY <2>2, <2>3 DEF Rendering
<1> QED
  BY <1>3, <1>4, <1>5 DEF PrivateInv

\* The Overlay claims nothing of click-through that is not on its way.
LEMMA StealthRendered ==
    ASSUME ShapeInv, StealthInv, NEW calls, NEW u, Rendering(calls, u), Unheard(calls, u),
           win'.ignoring = win.ignoring, events' = events
    PROVE  StealthInv'
<1> DEFINE T == {"clickthrough"}
           e == Effects(ui, u)
<1>1. /\ ipc \in Seq(CallRecord) /\ calls \in Seq(CallRecord) /\ e \in Seq(CallRecord)
      /\ ipc \o calls \in Seq(CallRecord) /\ u \in Ui /\ ui \in Ui
  BY RenderedParts
<1>2. ipc' = (ipc \o calls) \o e /\ ui' = Forgets(u)
  BY RenderedParts
<1>3. ui'.stealth => u.stealth
  BY <1>1, <1>2, ForgetsWhat
<1> HIDE DEF e
<1>4. Absent(ipc', T) => Absent(ipc, T) /\ Absent(calls, T)
  BY <1>1, <1>2, AbsentJoined
<1> QED
  BY <1>3, <1>4 DEF StealthInv, Unheard

\* Nothing but an event shows an interview.
LEMMA EndedRendered ==
    ASSUME EndedInv, NEW calls, NEW u, Rendering(calls, u), Unheard(calls, u), Alone
    PROVE  EndedInv'
<1>1. ui'.phase = "interview" => ui.phase = "interview"
  BY ForgetsWhat DEF Rendering, Renders, Unheard
<1> QED
  BY <1>1 DEF EndedInv, Alone

\* The effects bring the window to the height of a new screen.
LEMMA EffectsLead ==
    ASSUME NEW u \in Ui, NEW v \in Ui, NEW m \in Course, m.collapsed = v.collapsed,
           Effects(u, v) = <<>> => Suits(v, m)
    PROVE  \E n \in Course : Leads(Effects(u, v), m, n) /\ Suits(v, n)
<1> DEFINE h == Resize(v)
           p == Protect
           to == IF m.collapsed \/ Near(Clamped(ScreenHeight(v)), m.height) THEN m.height
                 ELSE Clamped(ScreenHeight(v))
           n == [collapsed |-> m.collapsed, height |-> to]
<1>1. /\ m.collapsed \in BOOLEAN /\ m.height \in Int /\ Clamped(ScreenHeight(v)) \in Int
  BY Heights DEF Course
<1>2. n \in Course /\ n.collapsed = m.collapsed /\ n.height = to
  BY <1>1 DEF Course
<1>3. h.type = "height" /\ h.value = ScreenHeight(v) /\ p.type = "private"
      /\ h \in CallRecord /\ p \in CallRecord
  BY EffectCalls
<1>4. ~m.collapsed => Near(to, Clamped(ScreenHeight(v)))
  BY <1>1 DEF Near
<1> HIDE DEF h, p, n
<1>5. Turns(h, m, n) /\ Turns(p, n, n)
  BY <1>2, <1>3 DEF Turns
<1>6. Leads(<<h>>, m, n) /\ Leads(<<p>>, n, n)
  BY <1>2, <1>5, LeadsSingle
<1>7. Suits(v, n)
  BY <1>2, <1>4 DEF Suits
<1>8. Leads(<<h, p>>, m, n)
  <2>1. <<h>> \in Seq(CallRecord) /\ <<p>> \in Seq(CallRecord)
    BY <1>3
  <2>2. <<h>> \o <<p>> = <<h, p>>
    BY InTurn
  <2> QED
    BY <1>6, <2>1, <2>2, LeadsOn
<1>9. Leads(<<>>, m, m)
  BY LeadsSingle
<1>10. Effects(u, v) \in {<<h, p>>, <<h>>, <<>>}
  BY EffectsAre DEF h, p
<1> QED
  BY <1>2, <1>6, <1>7, <1>8, <1>9, <1>10

\* What the calls carry and the effects add suits what is rendered.
LEMMA CourseRendered ==
    ASSUME ShapeInv, WindowInv, NEW calls, NEW u, Rendering(calls, u),
           UNCHANGED <<win, manager>>,
           history'.left = history.left, history'.stale = history.stale
    PROVE  WindowInv'
<1> DEFINE e == Effects(ui, u)
<1>1. /\ ipc \in Seq(CallRecord) /\ calls \in Seq(CallRecord) /\ e \in Seq(CallRecord)
      /\ ipc \o calls \in Seq(CallRecord) /\ u \in Ui /\ ui \in Ui
  BY RenderedParts
<1>2. ipc' = (ipc \o calls) \o e /\ ui' = Forgets(u)
  BY RenderedParts
<1> SUFFICES ASSUME win.exists, ~history.stale
             PROVE  (Placed /\ \E t \in Course : Leads(ipc, Here, t) /\ Suits(ui, t))'
  BY DEF WindowInv
<1>3. PICK t \in Course : Placed /\ Leads(ipc, Here, t) /\ Suits(ui, t)
  BY DEF WindowInv
<1>4. PICK m \in Course :
         /\ Leads(calls, t, m)
         /\ m.collapsed = u.collapsed
         /\ \/ m.height = t.height /\ (OverlayMounted(ui) => u.content = ui.content)
            \/ OverlayMounted(u) /\ Near(m.height, Clamped(u.content))
  BY <1>3 DEF Rendering, Carries, Suits
<1>5. ASSUME e = <<>>, ~u.collapsed PROVE Near(m.height, Clamped(ScreenHeight(u)))
  <2>1. CASE OverlayMounted(u) /\ Near(m.height, Clamped(u.content))
    <3>1. ScreenHeight(u) = u.content
      BY <2>1 DEF ScreenHeight, OverlayMounted
    <3> QED
      BY <2>1, <3>1
  <2>2. CASE m.height = t.height /\ (OverlayMounted(ui) => u.content = ui.content)
    <3>1. OverlayMounted(u) => OverlayMounted(ui)
      BY <1>1, <1>5, EffectsSeq
    <3>2. CASE OverlayMounted(u)
      <4>1. /\ u.phase = "interview" /\ ui.phase = "interview" /\ ~ui.collapsed
            /\ u.content = ui.content
        BY <2>2, <3>1, <3>2 DEF OverlayMounted
      <4>2. ScreenHeight(u) = ScreenHeight(ui)
        BY <4>1 DEF ScreenHeight
      <4> QED
        BY <1>3, <2>2, <4>1, <4>2 DEF Suits
    <3>3. CASE ~OverlayMounted(u)
      <4>1. u.phase # "interview"
        BY <1>5, <3>3 DEF OverlayMounted
      <4>2. ui.phase = u.phase /\ ui.step = u.step /\ ui.collapsed = u.collapsed
        BY <1>1, <1>5, <3>3, <4>1, EffectsSeq DEF Unchanged
      <4>3. ScreenHeight(u) = ScreenHeight(ui)
        BY <4>1, <4>2 DEF ScreenHeight
      <4> QED
        BY <1>3, <1>5, <2>2, <4>2, <4>3 DEF Suits
    <3> QED
      BY <3>2, <3>3
  <2> QED
    BY <1>4, <2>1, <2>2
<1>6. PICK n \in Course : Leads(e, m, n) /\ Suits(u, n)
  <2>1. e = <<>> => Suits(u, m)
    BY <1>4, <1>5 DEF Suits
  <2> QED
    BY <1>1, <1>4, <2>1, EffectsLead
<1> HIDE DEF e
<1>7. Leads(ipc \o calls, Here, m)
  BY <1>1, <1>3, <1>4, LeadsOn
<1>8. Leads((ipc \o calls) \o e, Here, n)
  BY <1>1, <1>6, <1>7, LeadsOn
<1>9. Suits(Forgets(u), n)
  BY <1>1, <1>6, ForgetsWhat DEF Suits
<1>10. Here' = Here
  BY DEF Here
<1>11. Placed'
  BY <1>3 DEF Placed
<1>12. \A r : (r = ipc') => (Leads(ipc, Here, n)' <=> Leads(r, Here', n))
  BY DEF Leads, Turns, Near, Clamped
<1>13. \A r : (r = ui') => (Suits(ui, n)' <=> Suits(r, n))
  BY DEF Suits, ScreenHeight, Near, Clamped
<1> QED
  BY <1>2, <1>8, <1>9, <1>10, <1>11, <1>12, <1>13

-----------------------------------------------------------------------------
(* What the user makes the renderer do *)

UserRenders == \E calls, u : Rendering(calls, u) /\ Unheard(calls, u) /\ Alone

\* A call that is about neither collapse nor height leaves the course as it is.
LEMMA CarriesOn ==
    ASSUME NEW u \in Ui, u.collapsed = ui.collapsed, OverlayMounted(ui) => u.content = ui.content
    PROVE  /\ Carries(<<>>, u)
           /\ \A c : c.type \notin {"collapsed", "height"} /\ (c.type = "move" => ui.collapsed)
                 => Carries(<<c>>, u)
<1>1. ASSUME NEW t \in Course PROVE Leads(<<>>, t, t)
  BY LeadsSingle
<1>2. Carries(<<>>, u)
  BY <1>1 DEF Carries
<1>3. ASSUME NEW c, c.type \notin {"collapsed", "height"}, c.type = "move" => ui.collapsed,
             NEW t \in Course, t.collapsed = ui.collapsed
      PROVE  Leads(<<c>>, t, t)
  <2>1. Turns(c, t, t)
    BY <1>3 DEF Turns
  <2> QED
    BY <2>1, LeadsSingle
<1>4. ASSUME NEW c, c.type \notin {"collapsed", "height"}, c.type = "move" => ui.collapsed
      PROVE  Carries(<<c>>, u)
  BY <1>3, <1>4 DEF Carries
<1> QED
  BY <1>2, <1>4

\* A click changes nothing itself, and is counted.
LEMMA ClicksAlone ==
    ASSUME ShapeInv, Clicks
    PROVE  Alone
<1>1. history \in History /\ MaxSteps \in Nat
  BY ShellAssumption DEF ShapeInv, ShellTypeOK
<1>2. history.steps < MaxSteps /\ history' = [history EXCEPT !.steps = history.steps + 1]
  BY DEF Clicks, Counted
<1>3. history.steps + 1 \in 0..MaxSteps
  BY <1>1, <1>2 DEF History
<1>4. history' \in History /\ history'.left = history.left /\ history'.missed = history.missed
      /\ history'.stale = history.stale
  BY <1>1, <1>2, <1>3 DEF History
<1> QED
  BY <1>4 DEF Clicks, Alone, windowVars

\* The screens change, and the interview is asked for, stopped or left.
LEMMA Plainly ==
    ASSUME ShapeInv, Alone, NEW u \in Ui, NEW calls, Renders(calls, u),
           \/ calls = <<>>
           \/ \E type \in {"start", "stop", "quit"} : calls = <<Call(type, TRUE)>>,
           u.collapsed = ui.collapsed, u.private = ui.private, u.stealth = ui.stealth,
           u.content = ui.content, u.phase = "interview" => ui.phase = "interview"
    PROVE  UserRenders
<1>1. /\ calls \in Seq(CallRecord) /\ Absent(calls, {"private"}) /\ Carries(calls, u)
  <2>1. CASE calls = <<>>
    BY <2>1, CarriesOn DEF Absent
  <2>2. ASSUME NEW type \in {"start", "stop", "quit"}, calls = <<Call(type, TRUE)>>
        PROVE  /\ calls \in Seq(CallRecord) /\ Absent(calls, {"private"}) /\ Carries(calls, u)
    <3> DEFINE c == Call(type, TRUE)
    <3>1. c \in CallRecord /\ c.type = type /\ calls = <<c>>
      BY <2>2, CallIs
    <3> HIDE DEF c
    <3>2. Absent(<<c>>, {"private"}) /\ <<c>> \in Seq(CallRecord)
      BY <3>1, Single
    <3>3. Carries(<<c>>, u)
      BY <3>1, CarriesOn
    <3> QED
      BY <3>1, <3>2, <3>3
  <2> QED
    BY <2>1, <2>2
<1>2. Rendering(calls, u) /\ Unheard(calls, u)
  BY <1>1 DEF Rendering, Unheard
<1> QED
  BY <1>2 DEF UserRenders

\* The screens: start-up, sign-in, the pages, start, stop and close.
LEMMA ScreensRender ==
    ASSUME ShapeInv,
           \/ Boots \/ SignsIn \/ CreateFree \/ Back \/ StartInterview \/ StopInterview \/ Close
    PROVE  UserRenders
<1>1. ui \in Ui /\ history \in History
  BY DEF ShapeInv, ShellTypeOK
<1>2. CASE Boots \/ SignsIn
  <2>1. Alone
    BY <1>1, <1>2 DEF Boots, SignsIn, Alone, windowVars
  <2>2. \E u : /\ Renders(<<>>, u)
               /\ u = [ui EXCEPT !.error = TRUE]
                    \/ \E phase \in {"auth", "ready"} : u = [ui EXCEPT !.phase = phase]
    BY <1>2 DEF Boots, SignsIn
  <2>3. PICK u : /\ Renders(<<>>, u)
                 /\ u = [ui EXCEPT !.error = TRUE]
                      \/ \E phase \in {"auth", "ready"} : u = [ui EXCEPT !.phase = phase]
    BY <2>2
  <2>4. /\ u \in Ui /\ u.collapsed = ui.collapsed /\ u.private = ui.private
        /\ u.stealth = ui.stealth /\ u.content = ui.content
        /\ (u.phase = "interview" => ui.phase = "interview")
    BY <1>1, <2>3 DEF Ui, Phase
  <2> QED
    BY <2>1, <2>3, <2>4, Plainly
<1>3. CASE CreateFree \/ Back
  <2>1. Alone
    BY <1>3, ClicksAlone DEF CreateFree, Back
  <2>2. PICK u : /\ Renders(<<>>, u)
                 /\ \/ u = [ui EXCEPT !.step = "onboarding"]
                    \/ u = [ui EXCEPT !.step = "start", !.busy = FALSE]
    BY <1>3 DEF CreateFree, Back
  <2>3. /\ u \in Ui /\ u.collapsed = ui.collapsed /\ u.private = ui.private
        /\ u.stealth = ui.stealth /\ u.content = ui.content /\ u.phase = ui.phase
    BY <1>1, <2>2 DEF Ui
  <2> QED
    BY <2>1, <2>2, <2>3, Plainly
<1>4. CASE StartInterview
  <2> DEFINE u == [ui EXCEPT !.busy = TRUE]
  <2>1. Alone /\ Renders(<<Call("start", TRUE)>>, u)
    BY <1>4, ClicksAlone DEF StartInterview
  <2>2. /\ u \in Ui /\ u.collapsed = ui.collapsed /\ u.private = ui.private
        /\ u.stealth = ui.stealth /\ u.content = ui.content /\ u.phase = ui.phase
    BY <1>1 DEF Ui
  <2> HIDE DEF u
  <2> QED
    BY <2>1, <2>2, Plainly
<1>5. CASE StopInterview \/ Close
  <2>1. Alone
    BY <1>5, ClicksAlone DEF StopInterview, Close
  <2>2. PICK type \in {"stop", "quit"} : Renders(<<Call(type, TRUE)>>, ui)
    BY <1>5 DEF StopInterview, Close
  <2> QED
    BY <1>1, <2>1, <2>2, Plainly
<1> QED
  BY <1>2, <1>3, <1>4, <1>5

\* Collapse and expand take turns.
LEMMA CarriesTurn ==
    ASSUME NEW u \in Ui, ui \in Ui, u.collapsed = ~ui.collapsed,
           OverlayMounted(ui) => u.content = ui.content
    PROVE  Carries(<<Call("collapsed", u.collapsed)>>, u)
<1> DEFINE c == Call("collapsed", u.collapsed)
<1>1. c.type = "collapsed" /\ c.value = u.collapsed
  BY CallIs
<1> HIDE DEF c
<1>2. ASSUME NEW t \in Course, t.collapsed = ui.collapsed
      PROVE  \E m \in Course : /\ Leads(<<c>>, t, m) /\ m.collapsed = u.collapsed
                               /\ m.height = t.height
  <2> DEFINE m == [collapsed |-> u.collapsed, height |-> t.height]
  <2>1. m \in Course /\ m.collapsed = u.collapsed /\ m.height = t.height
    BY DEF Course, Ui
  <2> HIDE DEF m
  <2>2. Turns(c, t, m)
    BY <1>1, <1>2, <2>1 DEF Turns
  <2>3. Leads(<<c>>, t, m)
    BY <2>1, <2>2, LeadsSingle
  <2> QED
    BY <2>1, <2>3
<1>3. Carries(<<c>>, u)
  BY <1>2 DEF Carries
<1> QED
  BY <1>3 DEF c

\* A slip of the pill comes before the turn.
LEMMA CarriesSlip ==
    ASSUME NEW u \in Ui, ui \in Ui, ui.collapsed, ~u.collapsed
    PROVE  Carries(<<Call("move", TRUE)>> \o <<Call("collapsed", FALSE)>>, u)
<1> DEFINE s == Call("move", TRUE)
           c == Call("collapsed", FALSE)
<1>1. s \in CallRecord /\ s.type = "move" /\ c \in CallRecord
  BY CallIs
<1>2. Carries(<<c>>, u)
  <2>1. u.collapsed = FALSE /\ u.collapsed = ~ui.collapsed /\ ~OverlayMounted(ui)
    BY DEF Ui, OverlayMounted
  <2> QED
    BY <2>1, CarriesTurn
<1> HIDE DEF s, c
<1>3. ASSUME NEW t \in Course, t.collapsed = ui.collapsed PROVE Leads(<<s>>, t, t)
  <2>1. Turns(s, t, t)
    BY <1>1, <1>3 DEF Turns
  <2> QED
    BY <2>1, LeadsSingle
<1>4. <<s>> \in Seq(CallRecord) /\ <<c>> \in Seq(CallRecord)
  BY <1>1
<1>5. ASSUME NEW t \in Course, t.collapsed = ui.collapsed, NEW m \in Course, Leads(<<c>>, t, m)
      PROVE  Leads(<<s>> \o <<c>>, t, m)
  BY <1>3, <1>4, <1>5, LeadsOn
<1>6. Carries(<<s>> \o <<c>>, u)
  BY <1>2, <1>5 DEF Carries
<1> QED
  BY <1>6 DEF s, c

\* The pill: collapse, expand and drag
LEMMA PillRenders ==
    ASSUME ShapeInv, Collapse \/ Expand \/ DragPill
    PROVE  UserRenders
<1>1. ui \in Ui
  BY DEF ShapeInv, ShellTypeOK
<1>2. Alone
  BY ClicksAlone DEF Collapse, Expand, DragPill
<1>3. CASE Collapse
  <2> DEFINE u == [ui EXCEPT !.collapsed = TRUE, !.busy = FALSE]
  <2>1. Renders(<<Call("collapsed", TRUE)>>, u) /\ ~ui.collapsed
    BY <1>3 DEF Collapse
  <2>2. /\ u \in Ui /\ u.collapsed = TRUE /\ u.private = ui.private
        /\ u.stealth = ui.stealth /\ u.content = ui.content /\ u.phase = ui.phase
    BY <1>1 DEF Ui
  <2> HIDE DEF u
  <2>3. Carries(<<Call("collapsed", u.collapsed)>>, u)
    BY <1>1, <2>1, <2>2, CarriesTurn
  <2> DEFINE c == Call("collapsed", TRUE)
  <2>4. c \in CallRecord /\ c.type = "collapsed" /\ Carries(<<c>>, u) /\ Renders(<<c>>, u)
    BY <2>1, <2>2, <2>3, CallIs
  <2> HIDE DEF c
  <2>5. Absent(<<c>>, {"private"}) /\ <<c>> \in Seq(CallRecord)
    BY <2>4, Single
  <2>6. Rendering(<<c>>, u) /\ Unheard(<<c>>, u)
    BY <2>2, <2>4, <2>5 DEF Rendering, Unheard
  <2> QED
    BY <1>2, <2>6 DEF UserRenders
<1>4. CASE Expand
  <2>1. PICK slip \in {<<>>, <<Call("move", TRUE)>>}, h \in Content :
           Renders(slip \o <<Call("collapsed", FALSE)>>,
                   [ui EXCEPT !.collapsed = FALSE, !.content = h])
    BY <1>4 DEF Expand
  <2> DEFINE u == [ui EXCEPT !.collapsed = FALSE, !.content = h]
             c == Call("collapsed", FALSE)
             s == Call("move", TRUE)
  <2>2. /\ u \in Ui /\ u.collapsed = FALSE /\ u.private = ui.private
        /\ u.stealth = ui.stealth /\ u.phase = ui.phase
    BY <1>1 DEF Ui
  <2>3. ui.collapsed /\ ui.collapsed = TRUE /\ ~OverlayMounted(ui)
    BY <1>1, <1>4 DEF Expand, OverlayMounted, Ui
  <2>4. Renders(slip \o <<c>>, u)
    BY <2>1
  <2> HIDE DEF u
  <2>5. c \in CallRecord /\ c.type = "collapsed" /\ s \in CallRecord /\ s.type = "move"
    BY CallIs
  <2>6. Carries(<<s>> \o <<c>>, u)
    BY <1>1, <2>2, <2>3, CarriesSlip
  <2>7. Carries(<<c>>, u)
    BY <1>1, <2>2, <2>3, CarriesTurn
  <2> HIDE DEF c, s
  <2>8. <<>> \o <<c>> = <<c>>
    OBVIOUS
  <2>9. slip = <<>> \/ slip = <<s>>
    BY DEF s
  <2>10. Carries(slip \o <<c>>, u)
    BY <2>6, <2>7, <2>8, <2>9
  <2>11. slip \in Seq(CallRecord) /\ <<c>> \in Seq(CallRecord)
         /\ Absent(slip, {"private"}) /\ Absent(<<c>>, {"private"})
    <3>1. <<c>> \in Seq(CallRecord) /\ <<s>> \in Seq(CallRecord) /\ <<>> \in Seq(CallRecord)
      BY <2>5
    <3>2. Absent(<<c>>, {"private"}) /\ Absent(<<s>>, {"private"}) /\ Absent(<<>>, {"private"})
      BY <2>5, Single
    <3> QED
      BY <2>9, <3>1, <3>2
  <2>12. slip \o <<c>> \in Seq(CallRecord) /\ Absent(slip \o <<c>>, {"private"})
    <3> DEFINE cs == <<c>>
    <3>1. cs \in Seq(CallRecord) /\ Absent(cs, {"private"})
      BY <2>11
    <3> HIDE DEF cs
    <3>2. slip \o cs \in Seq(CallRecord)
      BY <2>11, <3>1
    <3>3. Absent(slip \o cs, {"private"})
      BY <2>11, <3>1, AbsentJoined
    <3> QED
      BY <3>2, <3>3 DEF cs
  <2>13. Rendering(slip \o <<c>>, u) /\ Unheard(slip \o <<c>>, u)
    BY <2>2, <2>4, <2>10, <2>12 DEF Rendering, Unheard
  <2> QED
    BY <1>2, <2>13 DEF UserRenders
<1>5. CASE DragPill
  <2> DEFINE c == Call("move", TRUE)
  <2>1. Renders(<<c>>, ui) /\ ui.collapsed
    BY <1>5 DEF DragPill
  <2>2. c \in CallRecord /\ c.type = "move"
    BY CallIs
  <2> HIDE DEF c
  <2>3. Carries(<<c>>, ui) /\ Absent(<<c>>, {"private"})
    BY <1>1, <2>1, <2>2, CarriesOn, Single
  <2>4. Rendering(<<c>>, ui) /\ Unheard(<<c>>, ui)
    BY <1>1, <2>1, <2>2, <2>3 DEF Rendering, Unheard
  <2> QED
    BY <1>2, <2>4 DEF UserRenders
<1> QED
  BY <1>3, <1>4, <1>5

\* The Overlay: private mode, click-through and the height of its content
LEMMA OverlayRenders ==
    ASSUME ShapeInv, TogglePrivate \/ ToggleStealth \/ ContentChanges
    PROVE  UserRenders
<1>1. ui \in Ui /\ history \in History /\ MaxSteps \in Nat
  BY ShellAssumption DEF ShapeInv, ShellTypeOK
<1>2. CASE TogglePrivate
  <2> DEFINE u == [ui EXCEPT !.private = ~ui.private]
             c == Call("private", ~ui.private)
  <2>1. Renders(<<c>>, u)
    BY <1>2 DEF TogglePrivate
  <2>2. /\ u \in Ui /\ u.collapsed = ui.collapsed /\ u.private = ~ui.private
        /\ u.stealth = ui.stealth /\ u.content = ui.content /\ u.phase = ui.phase
    BY <1>1 DEF Ui
  <2>3. c \in CallRecord /\ c.type = "private"
    BY <1>1, CallIs DEF Ui
  <2>4. <<c>> = <<Call("private", u.private)>>
    BY <2>2
  <2> HIDE DEF u, c
  <2>5. Carries(<<c>>, u)
    BY <2>2, <2>3, CarriesOn
  <2>6. Rendering(<<c>>, u) /\ Unheard(<<c>>, u)
    BY <2>1, <2>2, <2>3, <2>4, <2>5 DEF Rendering, Unheard
  <2>7. Alone
    BY <1>2, ClicksAlone DEF TogglePrivate
  <2> QED
    BY <2>6, <2>7 DEF UserRenders
<1>3. CASE ToggleStealth
  <2> DEFINE u == [ui EXCEPT !.stealth = ~ui.stealth]
             c == Call("clickthrough", ~ui.stealth)
  <2>1. Renders(<<c>>, u)
    BY <1>3 DEF ToggleStealth
  <2>2. /\ u \in Ui /\ u.collapsed = ui.collapsed /\ u.private = ui.private
        /\ u.content = ui.content /\ u.phase = ui.phase
    BY <1>1 DEF Ui
  <2>3. c \in CallRecord /\ c.type = "clickthrough"
    BY <1>1, CallIs DEF Ui
  <2> HIDE DEF u, c
  <2>4. Carries(<<c>>, u) /\ Absent(<<c>>, {"private"}) /\ ~Absent(<<c>>, {"clickthrough"})
    BY <2>2, <2>3, CarriesOn, Single
  <2>5. Rendering(<<c>>, u) /\ Unheard(<<c>>, u)
    BY <2>1, <2>2, <2>3, <2>4 DEF Rendering, Unheard
  <2>6. Alone
    BY <1>3, ClicksAlone DEF ToggleStealth
  <2> QED
    BY <2>5, <2>6 DEF UserRenders
<1>4. CASE ContentChanges
  <2>1. PICK h \in Content : Renders(<<Call("height", h)>>, [ui EXCEPT !.content = h])
    BY <1>4 DEF ContentChanges
  <2> DEFINE u == [ui EXCEPT !.content = h]
             c == Call("height", h)
  <2>2. /\ u \in Ui /\ u.collapsed = ui.collapsed /\ u.private = ui.private
        /\ u.stealth = ui.stealth /\ u.content = h /\ u.phase = ui.phase /\ h \in Nat
    BY <1>1, ShellAssumption DEF Ui
  <2>3. OverlayMounted(u) /\ ~ui.collapsed
    BY <1>4, <2>2 DEF ContentChanges, OverlayMounted
  <2>4. c \in CallRecord /\ c.type = "height" /\ c.value = h
    BY <2>2, CallIs
  <2>5. Renders(<<c>>, u)
    BY <2>1
  <2> HIDE DEF u, c
  <2>6. ASSUME NEW t \in Course, t.collapsed = ui.collapsed
        PROVE  \E m \in Course : /\ Leads(<<c>>, t, m) /\ m.collapsed = u.collapsed
                                 /\ Near(m.height, Clamped(u.content))
    <3> DEFINE to == IF Near(Clamped(h), t.height) THEN t.height ELSE Clamped(h)
               m == [collapsed |-> t.collapsed, height |-> to]
    <3>1. Clamped(h) \in Int /\ t.height \in Int /\ t.collapsed \in BOOLEAN
      BY <2>2, Heights DEF Course
    <3>2. m \in Course /\ m.collapsed = t.collapsed /\ m.height = to
      BY <3>1 DEF Course
    <3>3. Near(to, Clamped(h))
      BY <3>1 DEF Near
    <3> HIDE DEF m
    <3>4. Turns(c, t, m)
      BY <2>3, <2>4, <2>6, <3>2 DEF Turns
    <3>5. Leads(<<c>>, t, m)
      BY <3>2, <3>4, LeadsSingle
    <3> QED
      BY <2>2, <2>6, <3>2, <3>3, <3>5
  <2>7. Carries(<<c>>, u) /\ Absent(<<c>>, {"private"})
    BY <2>3, <2>4, <2>6, Single DEF Carries
  <2>8. Rendering(<<c>>, u) /\ Unheard(<<c>>, u)
    BY <2>2, <2>4, <2>5, <2>7 DEF Rendering, Unheard
  <2>9. Alone
    <3>1. history.steps < MaxSteps /\ history' = [history EXCEPT !.steps = history.steps + 1]
      BY <1>4 DEF ContentChanges, Counted
    <3>2. history.steps + 1 \in 0..MaxSteps
      BY <1>1, <3>1 DEF History
    <3>3. history' \in History /\ history'.left = history.left
          /\ history'.missed = history.missed /\ history'.stale = history.stale
      BY <1>1, <3>1, <3>2 DEF History
    <3> QED
      BY <1>4, <3>3 DEF ContentChanges, Alone, windowVars
  <2> QED
    BY <2>8, <2>9 DEF UserRenders
<1> QED
  BY <1>2, <1>3, <1>4

-----------------------------------------------------------------------------
(* What the main process makes of a call *)

\* The window stays a window in what each call makes of it.
LEMMA WindowOps ==
    ASSUME ShapeInv, win.exists
    PROVE  /\ \A p \in Place : LET w == MoveTo(win, p) IN
                 /\ w \in Window /\ w.exists /\ w.protected = win.protected
                 /\ w.ignoring = win.ignoring /\ w.bounds.at = p
                 /\ w.bounds.height = win.bounds.height /\ w.bounds.pill = win.bounds.pill
           /\ LET w == ShowOverlay(win) IN
                 /\ w \in Window /\ w.exists /\ w.protected /\ w.ignoring = win.ignoring
                 /\ w.bounds = win.bounds
           /\ LET w == HideOverlay(win) IN
                 /\ w \in Window /\ w.exists /\ w.protected = win.protected
                 /\ w.ignoring = win.ignoring /\ w.bounds = win.bounds
           /\ LET w == ReadyToShow(win) IN
                 /\ w \in Window /\ w.exists /\ w.protected = win.protected
                 /\ w.ignoring = win.ignoring /\ w.bounds = win.bounds
           /\ \A b \in BOOLEAN : LET w == SetPrivateMode(win, b) IN
                 /\ w \in Window /\ w.exists /\ w.protected = b
                 /\ w.ignoring = win.ignoring /\ w.bounds = win.bounds
<1>1. win \in Window /\ win.bounds \in Bounds
  BY DEF ShapeInv, ShellTypeOK, Window
<1> QED
  BY <1>1 DEF Window, Bounds, MoveTo, ShowOverlay, HideOverlay, ReadyToShow, SetPrivateMode

\* The same of the calls that are about its size
LEMMA SizeOps ==
    ASSUME ShapeInv, win.exists
    PROVE  /\ \A h \in Nat : Clamped(h) \in Nat =>
                 LET w == SetContentHeight(win, h) IN
                 /\ w \in Window /\ w.exists /\ w.protected = win.protected
                 /\ w.ignoring = win.ignoring /\ w.bounds.at = win.bounds.at
                 /\ w.bounds.pill = win.bounds.pill
                 /\ w.bounds.height =
                       IF manager.collapsed \/ Near(Clamped(h), win.bounds.height)
                       THEN win.bounds.height ELSE Clamped(h)
           /\ LET w == Collapsed(win) IN
                 /\ w \in Window /\ w.exists /\ w.protected = win.protected
                 /\ w.ignoring = win.ignoring /\ w.bounds = PillAt(win.bounds.at)
           /\ LET w == Expanded(win) IN
                 /\ w \in Window /\ w.exists /\ w.protected = win.protected
                 /\ w.ignoring = win.ignoring
                 /\ manager.expanded # NoBounds => w.bounds = manager.expanded
<1>1. win \in Window /\ win.bounds \in Bounds /\ manager.expanded \in Bounds \cup {NoBounds}
  BY DEF ShapeInv, ShellTypeOK, Window, Manager
<1>2. ASSUME NEW h \in Nat, Clamped(h) \in Nat
      PROVE  LET w == SetContentHeight(win, h) IN
                 /\ w \in Window /\ w.exists /\ w.protected = win.protected
                 /\ w.ignoring = win.ignoring /\ w.bounds.at = win.bounds.at
                 /\ w.bounds.pill = win.bounds.pill
                 /\ w.bounds.height =
                       IF manager.collapsed \/ Near(Clamped(h), win.bounds.height)
                       THEN win.bounds.height ELSE Clamped(h)
  BY <1>1, <1>2 DEF Window, Bounds, SetContentHeight
<1>3. COLLAPSED_SIZE \in Nat /\ DEFAULT_OVERLAY_HEIGHT \in Nat
  BY WindowAssumption
<1>4. PillAt(win.bounds.at) \in Bounds
  BY <1>1, <1>3 DEF PillAt, Bounds
<1>5. Collapsed(win) = [win EXCEPT !.bounds = PillAt(win.bounds.at)]
  BY <1>1 DEF Collapsed, Window
<1>6. \E b \in Bounds : /\ Expanded(win) = [win EXCEPT !.bounds = b]
                        /\ manager.expanded # NoBounds => b = manager.expanded
  <2> DEFINE d == [at |-> win.bounds.at, height |-> DEFAULT_OVERLAY_HEIGHT, pill |-> FALSE]
  <2>1. d \in Bounds
    BY <1>1, <1>3 DEF Bounds
  <2>2. Expanded(win) = [win EXCEPT !.bounds = IF manager.expanded # NoBounds
                                               THEN manager.expanded ELSE d]
    BY <1>1 DEF Expanded, Window
  <2> HIDE DEF d
  <2> QED
    BY <1>1, <2>1, <2>2
<1> QED
  BY <1>1, <1>2, <1>4, <1>5, <1>6 DEF Window

\* A height that is clamped is at least the least.
LEMMA ClampedIs == ASSUME NEW h \in Nat PROVE Clamped(h) \in Nat
BY WindowAssumption DEF Clamped

-----------------------------------------------------------------------------
(* The main process handles a call *)

\* It keeps its own fields, its window and its news of the session in shape.
Managed ==
    /\ win' \in Window /\ win'.exists
    /\ manager' \in Manager
    /\ windows' = windows
    /\ session' \in {"none", "live", "over", "disposed"}
    /\ history' \in History /\ history'.left = history.left /\ history'.stale = history.stale

\* The protection is what the call says, or only stronger.
Protects(c) ==
    IF c.type = "private" THEN win'.protected = c.value ELSE win.protected => win'.protected

\* Click-through is as before, or it is told.
Tells(c) ==
    IF c.type = "clickthrough"
    THEN win'.ignoring = c.value /\ events' = Append(events, Call("clickthrough", c.value))
    ELSE /\ win'.ignoring = win.ignoring
         /\ events' = events \/ \E news \in News : events' = Append(events, Call(news, TRUE))

\* The session goes on as it was, begins, or ends; the last two are told, or the
\* end is known to be missed.
Reports ==
    \/ /\ UNCHANGED session /\ history'.missed = history.missed
       /\ events' = events \/ \E b \in BOOLEAN : events' = Append(events, Call("clickthrough", b))
    \/ session' = "live"
    \/ session' = "over" /\ events' = Append(events, Call("ended", TRUE))
    \/ history'.missed

\* Every call keeps to these.
LEMMA HandleIs ==
    ASSUME ShapeInv, win.exists, NEW c \in CallRecord, Handle(c)
    PROVE  Managed /\ Protects(c) /\ Tells(c) /\ Reports
<1>1. /\ win \in Window /\ manager \in Manager /\ history \in History /\ win.exists
      /\ win.bounds \in Bounds
      /\ session \in {"none", "live", "over", "disposed"} /\ events \in Seq(EventRecord)
  BY DEF ShapeInv, ShellTypeOK, Window
<1>2. /\ c.type = "height" => c.value \in Nat
      /\ c.type # "height" => c.value \in BOOLEAN
  BY DEF CallRecord
<1>3. CASE c.type = "collapsed"
  <2>1. /\ SetCollapsed(c.value) /\ UNCHANGED <<events, session, history>>
    BY <1>3 DEF Handle
  <2>2. /\ win' = IF c.value THEN Collapsed(win) ELSE Expanded(win)
        /\ manager' = IF c.value THEN Remembers(win) ELSE [manager EXCEPT !.collapsed = FALSE]
        /\ windows' = windows
    BY <1>1, <2>1 DEF SetCollapsed, Has
  <2>3. win' \in Window /\ win'.exists /\ win'.protected = win.protected
        /\ win'.ignoring = win.ignoring
    BY <2>2, SizeOps
  <2>4. manager' \in Manager
    BY <1>1, <2>2 DEF Manager, Remembers
  <2> QED
    BY <1>1, <1>3, <2>1, <2>2, <2>3, <2>4 DEF Managed, Protects, Tells, Reports
<1>4. CASE c.type \in {"height", "private", "move"}
  <2>1. UNCHANGED <<events, session, history, manager, windows>>
    BY <1>4 DEF Handle, Calls
  <2>2. /\ c.type = "height" => win' = SetContentHeight(win, c.value)
        /\ c.type = "private" => win' = SetPrivateMode(win, c.value)
        /\ c.type = "move" => \E p \in Place : win' = MoveTo(win, p)
    BY <1>1, <1>4 DEF Handle, Calls, Has
  <2>3. /\ win' \in Window /\ win'.exists /\ win'.ignoring = win.ignoring
        /\ c.type # "private" => win'.protected = win.protected
        /\ c.type = "private" => win'.protected = c.value
    <3>1. CASE c.type = "height"
      BY <1>2, <2>2, <3>1, SizeOps, ClampedIs
    <3>2. CASE c.type = "private"
      BY <1>2, <2>2, <3>2, WindowOps
    <3>3. CASE c.type = "move"
      BY <2>2, <3>3, WindowOps
    <3> QED
      BY <1>4, <3>1, <3>2, <3>3
  <2> QED
    BY <1>1, <1>4, <2>1, <2>3 DEF Managed, Protects, Tells, Reports
<1>5. CASE c.type = "clickthrough"
  <2>1. ClickThrough(c.value) /\ UNCHANGED <<session, history>>
    BY <1>5 DEF Handle
  <2>2. /\ win' = [win EXCEPT !.ignoring = c.value]
        /\ manager' = [manager EXCEPT !.clickThrough = c.value] /\ windows' = windows
        /\ events' = Append(events, Call("clickthrough", c.value))
    BY <1>1, <2>1 DEF ClickThrough, SetClickThrough, Has, ToRenderer
  <2>3. /\ win' \in Window /\ win'.exists /\ win'.protected = win.protected
        /\ win'.ignoring = c.value /\ manager' \in Manager /\ c.value \in BOOLEAN
    BY <1>1, <1>2, <1>5, <2>2 DEF Window, Manager
  <2> QED
    BY <1>1, <1>5, <2>1, <2>2, <2>3 DEF Managed, Protects, Tells, Reports
<1>6. CASE c.type = "start"
  <2>1. InterviewStarts
    BY <1>6 DEF Handle
  <2>2. /\ win' = ShowOverlay(win) /\ UNCHANGED <<manager, windows>>
        /\ events' = Append(events, Call("started", TRUE)) /\ session' = "live"
        /\ history' = [history EXCEPT !.missed = FALSE]
    BY <1>1, <2>1 DEF InterviewStarts, Calls, Has, ToRenderer
  <2>3. win' \in Window /\ win'.exists /\ win'.protected /\ win'.ignoring = win.ignoring
    BY <2>2, WindowOps
  <2>4. history' \in History /\ history'.left = history.left /\ history'.stale = history.stale
    BY <1>1, <2>2 DEF History
  <2> QED
    BY <1>1, <1>6, <2>2, <2>3, <2>4 DEF Managed, Protects, Tells, Reports, News
<1>7. CASE c.type = "stop"
  <2>1. InterviewStops
    BY <1>7 DEF Handle
  <2>2. CASE session = "live"
    <3>1. InterviewEnds /\ UNCHANGED windowVars
      BY <2>1, <2>2 DEF InterviewStops
    <3>2. /\ UNCHANGED <<win, manager, windows>> /\ session' = "over"
          /\ events' = Append(events, Call("ended", TRUE))
          /\ history' = [history EXCEPT !.missed = FALSE]
      BY <1>1, <3>1 DEF InterviewEnds, ToRenderer, windowVars
    <3>3. history' \in History /\ history'.left = history.left /\ history'.stale = history.stale
      BY <1>1, <3>2 DEF History
    <3> QED
      BY <1>1, <1>7, <3>2, <3>3 DEF Managed, Protects, Tells, Reports, News
  <2>3. CASE session # "live"
    <3>1. UNCHANGED <<win, manager, windows, events, session, history>>
      BY <2>1, <2>3 DEF InterviewStops, windowVars
    <3> QED
      BY <1>1, <1>7, <3>1 DEF Managed, Protects, Tells, Reports
  <2> QED
    BY <2>2, <2>3
<1>8. c.type \in {"collapsed", "height", "private", "move", "clickthrough", "start", "stop"}
  BY DEF Handle
<1> QED
  BY <1>3, <1>4, <1>5, <1>6, <1>7, <1>8

\* Every call does to the course of the window what its turn is.
LEMMA HandleTurns ==
    ASSUME ShapeInv, win.exists, Placed, NEW c \in CallRecord, Handle(c),
           NEW m \in Course, Turns(c, Here, m), history'.left = history.left
    PROVE  Placed' /\ Here' = m
<1> USE DEF Placed
<1>1. /\ win \in Window /\ manager \in Manager /\ win.bounds \in Bounds
      /\ manager.collapsed \in BOOLEAN
  BY DEF ShapeInv, ShellTypeOK, Window, Manager
<1>2. /\ Here.collapsed = manager.collapsed
      /\ Here.height = IF manager.collapsed THEN manager.expanded.height ELSE win.bounds.height
  BY DEF Here
<1>3. m = [collapsed |-> m.collapsed, height |-> m.height]
  BY DEF Course
<1>4. (Here' = m) <=> /\ m.collapsed = manager'.collapsed
                      /\ m.height = IF manager'.collapsed THEN manager'.expanded.height
                                    ELSE win'.bounds.height
  BY <1>3 DEF Here
<1>5. CASE c.type = "collapsed" /\ c.value
  <2>1. SetCollapsed(c.value)
    BY <1>5 DEF Handle
  <2>2. ~manager.collapsed /\ m.collapsed = c.value /\ m.height = win.bounds.height
    BY <1>2, <1>5 DEF Turns
  <2>3. win' = Collapsed(win) /\ manager' = Remembers(win)
    BY <1>1, <1>5, <2>1 DEF SetCollapsed, Has
  <2>4. manager'.collapsed = TRUE /\ manager'.expanded = win.bounds
    BY <1>1, <2>2, <2>3 DEF Remembers, Manager
  <2>5. win'.bounds.pill = TRUE /\ win'.bounds.height = COLLAPSED_SIZE
    BY <2>3, SizeOps DEF PillAt
  <2>6. c.value = TRUE
    BY <1>5 DEF CallRecord
  <2>7. Here' = m
    BY <1>4, <2>2, <2>4, <2>6
  <2> QED
    BY <1>1, <2>2, <2>4, <2>5, <2>7
<1>6. CASE c.type = "collapsed" /\ ~c.value
  <2>1. SetCollapsed(c.value)
    BY <1>6 DEF Handle
  <2>2. manager.collapsed /\ m.collapsed = c.value /\ m.height = manager.expanded.height
    BY <1>1, <1>2, <1>6 DEF Turns, CallRecord
  <2>3. win' = Expanded(win) /\ manager' = [manager EXCEPT !.collapsed = FALSE]
    BY <1>1, <1>6, <2>1 DEF SetCollapsed, Has
  <2>4. manager'.collapsed = FALSE /\ manager'.expanded = manager.expanded
    BY <1>1, <2>3 DEF Manager
  <2>5. manager.expanded # NoBounds
    BY <2>2 DEF Bounds, NoBounds
  <2>6. win'.bounds = manager.expanded
    BY <2>3, <2>5, SizeOps
  <2>7. c.value = FALSE /\ manager.expanded.pill = FALSE
    BY <1>6, <2>2 DEF CallRecord, Bounds
  <2>8. Here' = m
    BY <1>4, <2>2, <2>4, <2>6, <2>7
  <2> QED
    BY <2>2, <2>4, <2>6, <2>7, <2>8
<1>7. CASE c.type = "height"
  <2>1. win' = SetContentHeight(win, c.value) /\ UNCHANGED manager /\ c.value \in Nat
    BY <1>1, <1>7 DEF Handle, Calls, Has, CallRecord
  <2>2. /\ win'.bounds.at = win.bounds.at /\ win'.bounds.pill = win.bounds.pill
        /\ win'.bounds.height = IF manager.collapsed \/ Near(Clamped(c.value), win.bounds.height)
                                THEN win.bounds.height ELSE Clamped(c.value)
    BY <2>1, SizeOps, ClampedIs
  <2>3. Here' = m
    BY <1>2, <1>4, <1>7, <2>1, <2>2 DEF Turns
  <2> QED
    BY <2>1, <2>2, <2>3
<1>8. CASE c.type = "move"
  <2>1. PICK p \in Place : win' = MoveTo(win, p) /\ UNCHANGED manager
    BY <1>1, <1>8 DEF Handle, Calls, Has
  <2>2. win'.bounds.height = win.bounds.height /\ win'.bounds.pill = win.bounds.pill
    BY <2>1, WindowOps
  <2>3. manager.collapsed
    BY <1>2, <1>8 DEF Turns
  <2>4. Here' = m
    BY <1>2, <1>4, <1>8, <2>1, <2>2 DEF Turns
  <2> QED
    BY <2>1, <2>2, <2>3, <2>4
<1>9. CASE c.type \in {"private", "clickthrough", "start", "stop"}
  <2>1. /\ win'.bounds = win.bounds /\ manager'.collapsed = manager.collapsed
        /\ manager'.expanded = manager.expanded
    <3>1. CASE c.type = "private"
      <4>1. win' = SetPrivateMode(win, c.value) /\ UNCHANGED manager /\ c.value \in BOOLEAN
        BY <1>1, <3>1 DEF Handle, Calls, Has, CallRecord
      <4> QED
        BY <4>1, WindowOps
    <3>2. CASE c.type = "clickthrough"
      <4>1. /\ win' = [win EXCEPT !.ignoring = c.value]
            /\ manager' = [manager EXCEPT !.clickThrough = c.value]
        BY <1>1, <3>2 DEF Handle, ClickThrough, SetClickThrough, Has
      <4> QED
        BY <1>1, <4>1 DEF Window, Manager
    <3>3. CASE c.type = "start"
      <4>1. win' = ShowOverlay(win) /\ UNCHANGED manager
        BY <1>1, <3>3 DEF Handle, InterviewStarts, Calls, Has
      <4> QED
        BY <4>1, WindowOps
    <3>4. CASE c.type = "stop"
      BY <3>4 DEF Handle, InterviewStops, windowVars
    <3> QED
      BY <1>9, <3>1, <3>2, <3>3, <3>4
  <2>2. m.collapsed = manager.collapsed /\ m.height = Here.height
    BY <1>2, <1>9 DEF Turns
  <2>3. Here' = m
    BY <1>2, <1>4, <2>1, <2>2
  <2> QED
    BY <2>1, <2>3
<1>10. c.type \in {"collapsed", "height", "private", "move", "clickthrough", "start", "stop"}
  BY DEF Handle
<1> QED
  BY <1>5, <1>6, <1>7, <1>8, <1>9, <1>10

-----------------------------------------------------------------------------
(* Steps of the main process *)

\* Click-through as it is told, or as it was while no call about it is handled
Honest ==
    \/ \E b \in BOOLEAN : win'.ignoring = b /\ events' = Append(events, Call("clickthrough", b))
    \/ /\ win'.ignoring = win.ignoring
       /\ events' = events \/ \E news \in News : events' = Append(events, Call(news, TRUE))
       /\ Absent(ipc', {"clickthrough"}) => Absent(ipc, {"clickthrough"})

\* What the main process tells is in shape.
LEMMA ToldShape ==
    ASSUME ShapeInv, Honest
    PROVE  events' \in Seq(EventRecord)
<1>1. events \in Seq(EventRecord)
  BY DEF ShapeInv
<1>2. /\ \A b \in BOOLEAN : Call("clickthrough", b) \in EventRecord
      /\ \A news \in News : Call(news, TRUE) \in EventRecord
  BY CallIs DEF News
<1>3. \A m \in EventRecord : Append(events, m) \in Seq(EventRecord)
  BY <1>1
<1>4. events' = events \/ \E m \in EventRecord : events' = Append(events, m)
  BY <1>2 DEF Honest
<1> QED
  BY <1>1, <1>3, <1>4

\* The last click-through event is about the window as it is.
LEMMA StealthTold ==
    ASSUME ShapeInv, StealthInv, Honest, ui' = ui
    PROVE  StealthInv'
<1> DEFINE T == {"clickthrough"}
<1>1. events \in Seq(EventRecord)
  BY DEF ShapeInv
<1>2. ASSUME NEW b \in BOOLEAN, win'.ignoring = b,
             events' = Append(events, Call("clickthrough", b))
      PROVE  StealthInv'
  <2> DEFINE m == Call("clickthrough", b)
  <2>1. m \in EventRecord /\ m.type = "clickthrough"
    BY CallIs
  <2>2. events' = Append(events, m) /\ m = Call("clickthrough", win.ignoring)'
    BY <1>2
  <2> HIDE DEF m
  <2>3. LastOf(events', T, m) /\ ~Absent(events', T)
    BY <1>1, <2>1, <2>2, Appended
  <2> QED
    BY <2>2, <2>3 DEF StealthInv
<1>3. CASE /\ win'.ignoring = win.ignoring
           /\ events' = events
           /\ Absent(ipc', T) => Absent(ipc, T)
  BY <1>3 DEF StealthInv
<1>4. ASSUME NEW news \in News, events' = Append(events, Call(news, TRUE)),
             win'.ignoring = win.ignoring, Absent(ipc', T) => Absent(ipc, T)
      PROVE  StealthInv'
  <2> DEFINE m == Call(news, TRUE)
             l == Call("clickthrough", win.ignoring)
  <2>1. m \in EventRecord /\ m.type \notin T
    BY CallIs DEF News
  <2>2. events' = Append(events, m) /\ l = Call("clickthrough", win.ignoring)'
    BY <1>4
  <2>3. Absent(events, T) \/ LastOf(events, T, l)
    BY DEF StealthInv
  <2> HIDE DEF m, l
  <2>4. /\ Absent(events', T) <=> Absent(events, T)
        /\ LastOf(events, T, l) => LastOf(events', T, l)
    BY <1>1, <2>1, <2>2, Appended
  <2> QED
    BY <1>4, <2>2, <2>3, <2>4 DEF StealthInv
<1> QED
  BY <1>2, <1>3, <1>4 DEF Honest

\* An end that is told is the last news.
LEMMA EndedReported ==
    ASSUME ShapeInv, EndedInv, Reports, ui' = ui
    PROVE  EndedInv'
<1>1. events \in Seq(EventRecord)
  BY DEF ShapeInv
<1> DEFINE e == Call("ended", TRUE)
<1>2. e \in EventRecord /\ e.type \in News
  BY CallIs DEF News
<1>3. CASE UNCHANGED session /\ history'.missed = history.missed /\ events' = events
  BY <1>3 DEF EndedInv
<1>4. ASSUME UNCHANGED session, history'.missed = history.missed, NEW b \in BOOLEAN,
             events' = Append(events, Call("clickthrough", b))
      PROVE  EndedInv'
  <2> DEFINE m == Call("clickthrough", b)
  <2>1. m \in EventRecord /\ m.type \notin News
    BY CallIs DEF News
  <2>2. events' = Append(events, m)
    BY <1>4
  <2> HIDE DEF m, e
  <2>3. /\ Absent(events', News) <=> Absent(events, News)
        /\ LastOf(events, News, e) => LastOf(events', News, e)
    BY <1>1, <2>1, <2>2, Appended
  <2> QED
    BY <1>4, <2>3 DEF EndedInv, e
<1>5. CASE events' = Append(events, e)
  <2> HIDE DEF e
  <2>1. LastOf(events', News, e)
    BY <1>1, <1>2, <1>5, Appended
  <2> QED
    BY <2>1 DEF EndedInv, e
<1>6. CASE session' = "live" \/ history'.missed
  BY <1>6 DEF EndedInv
<1> QED
  BY <1>3, <1>4, <1>5, <1>6 DEF Reports

AllInv == ShapeInv /\ PrivateInv /\ StealthInv /\ EndedInv /\ WindowInv

\* The main process handles the next call.
LEMMA MainHandlesKeeps ==
    ASSUME AllInv, MainHandles
    PROVE  AllInv'
<1> DEFINE c == Head(ipc)
<1>1. /\ ShapeInv /\ PrivateInv /\ StealthInv /\ EndedInv /\ WindowInv
      /\ ipc \in Seq(CallRecord) /\ ipc # <<>> /\ win.exists
  BY DEF AllInv, ShapeInv, ShellTypeOK, MainHandles
<1>2. c \in CallRecord /\ Tail(ipc) \in Seq(CallRecord)
  BY <1>1, Taken
<1>3. Handle(c) /\ ipc' = Tail(ipc) /\ ui' = ui
  BY DEF MainHandles
<1> HIDE DEF c
<1>4. Managed /\ Protects(c) /\ Tells(c) /\ Reports
  BY <1>1, <1>2, <1>3, HandleIs
<1>5. c = Head(ipc)
  BY DEF c
<1>6. Honest
  <2>1. c.type # "clickthrough" /\ Absent(ipc', {"clickthrough"}) => Absent(ipc, {"clickthrough"})
    BY <1>1, <1>3, <1>5, AbsentBack
  <2>2. c.type = "clickthrough" => c.value \in BOOLEAN
    BY <1>2 DEF CallRecord
  <2> QED
    BY <1>4, <2>1, <2>2 DEF Tells, Honest
<1>7. ShapeInv'
  <2>1. events' \in Seq(EventRecord)
    BY <1>1, <1>6, ToldShape
  <2>2. Fresh(ui)'
    BY <1>1, <1>3 DEF ShapeInv, Fresh, OverlayMounted
  <2> QED
    BY <1>1, <1>2, <1>3, <1>4, <2>1, <2>2 DEF ShapeInv, ShellTypeOK, Managed
<1>8. PrivateInv'
  <2> DEFINE T == {"private"}
             p == Call("private", TRUE)
  <2> SUFFICES ASSUME OverlayMounted(ui), ui.private
               PROVE  LastOf(ipc', T, p) \/ (Absent(ipc', T) /\ win'.protected)
    BY <1>3 DEF PrivateInv, OverlayMounted
  <2>1. LastOf(ipc, T, p) \/ (Absent(ipc, T) /\ win.protected)
    BY <1>1 DEF PrivateInv
  <2>2. p.type = "private" /\ p.value = TRUE
    BY CallIs
  <2> HIDE DEF p
  <2>3. CASE LastOf(ipc, T, p)
    <3>1. (c = p /\ Absent(ipc', T)) \/ LastOf(ipc', T, p)
      BY <1>1, <1>3, <1>5, <2>3, LastTaken
    <3> QED
      BY <1>4, <2>2, <3>1 DEF Protects
  <2>4. CASE Absent(ipc, T) /\ win.protected
    <3>1. Absent(ipc', T) /\ c.type \notin T
      BY <1>1, <1>3, <1>5, <2>4, AbsentTaken
    <3> QED
      BY <1>4, <2>4, <3>1 DEF Protects
  <2> QED
    BY <2>1, <2>3, <2>4
<1>9. StealthInv'
  BY <1>1, <1>3, <1>6, StealthTold
<1>10. EndedInv'
  BY <1>1, <1>3, <1>4, EndedReported
<1>11. WindowInv'
  <2> SUFFICES ASSUME ~history'.stale
               PROVE  (Placed /\ \E t \in Course : Leads(ipc, Here, t) /\ Suits(ui, t))'
    BY DEF WindowInv
  <2>1. ~history.stale /\ history'.left = history.left
    BY <1>4 DEF Managed
  <2>2. PICK t \in Course : Placed /\ Leads(ipc, Here, t) /\ Suits(ui, t)
    BY <1>1, <2>1 DEF WindowInv
  <2>3. PICK m \in Course : Turns(c, Here, m) /\ Leads(Tail(ipc), m, t)
    BY <1>1, <1>5, <2>2, LeadsTaken
  <2>4. Placed' /\ Here' = m
    BY <1>1, <1>2, <1>3, <2>1, <2>2, <2>3, HandleTurns
  <2>5. \A r : (r = ipc') => (Leads(ipc, Here, t)' <=> Leads(r, Here', t))
    BY DEF Leads, Turns, Near, Clamped
  <2>6. Suits(ui, t)' <=> Suits(ui, t)
    BY <1>3 DEF Suits, ScreenHeight, Near, Clamped
  <2> QED
    BY <1>3, <2>2, <2>3, <2>4, <2>5, <2>6
<1> QED
  BY <1>7, <1>8, <1>9, <1>10, <1>11 DEF AllInv

\* Its other steps leave the window where and as large as it is.
Standing ==
    /\ win' \in Window /\ win'.exists = win.exists /\ win'.bounds = win.bounds
    /\ win.protected => win'.protected
    /\ manager' \in Manager /\ windows' = windows
    /\ manager'.collapsed = manager.collapsed /\ manager'.expanded = manager.expanded
    /\ session' \in {"none", "live", "over", "disposed"}
    /\ history' \in History /\ history'.left = history.left /\ history'.stale = history.stale
    /\ ~win.exists => events' = events
    /\ UNCHANGED <<ui, ipc>>

\* Nothing of these disturbs what is shown.
LEMMA StandingKeeps ==
    ASSUME AllInv, Standing, Honest \/ (win'.ignoring = win.ignoring /\ events' = events), Reports
    PROVE  AllInv'
<1>1. /\ ShapeInv /\ PrivateInv /\ StealthInv /\ EndedInv /\ WindowInv
      /\ ui' = ui /\ ipc' = ipc
  BY DEF AllInv, Standing
<1>2. Honest
  BY <1>1 DEF Honest
<1>3. ShapeInv'
  <2>1. events' \in Seq(EventRecord)
    BY <1>1, <1>2, ToldShape
  <2>2. Fresh(ui)'
    BY <1>1 DEF ShapeInv, Fresh, OverlayMounted
  <2> QED
    BY <1>1, <2>1, <2>2 DEF ShapeInv, ShellTypeOK, Standing
<1>4. PrivateInv'
  BY <1>1 DEF PrivateInv, Standing, OverlayMounted
<1>5. StealthInv' /\ EndedInv'
  BY <1>1, <1>2, StealthTold, EndedReported
<1>6. WindowInv'
  <2> SUFFICES ASSUME win.exists, ~history.stale
               PROVE  (Placed /\ \E t \in Course : Leads(ipc, Here, t) /\ Suits(ui, t))'
    BY DEF WindowInv, Standing
  <2>1. PICK t \in Course : Placed /\ Leads(ipc, Here, t) /\ Suits(ui, t)
    BY <1>1 DEF WindowInv
  <2>2. Here' = Here /\ Placed'
    BY <2>1 DEF Here, Placed, Standing
  <2>3. \A r : (r = ipc') => (Leads(ipc, Here, t)' <=> Leads(r, Here', t))
    BY DEF Leads, Turns, Near, Clamped
  <2>4. Suits(ui, t)' <=> Suits(ui, t)
    BY <1>1 DEF Suits, ScreenHeight, Near, Clamped
  <2> QED
    BY <1>1, <2>1, <2>2, <2>3, <2>4
<1> QED
  BY <1>3, <1>4, <1>5, <1>6 DEF AllInv

\* The window is shown, a hotkey is pressed, the interview ends.
LEMMA MainStands ==
    ASSUME AllInv, Shows \/ Hotkey \/ SessionEnds
    PROVE  AllInv'
<1>1. /\ ShapeInv /\ win \in Window /\ manager \in Manager /\ history \in History
      /\ session \in {"none", "live", "over", "disposed"} /\ MaxSteps \in Nat
  BY ShellAssumption DEF AllInv, ShapeInv, ShellTypeOK
<1>2. CASE Shows
  <2>1. /\ win' = ReadyToShow(win) /\ win.exists /\ UNCHANGED <<manager, windows>>
        /\ UNCHANGED <<ui, ipc, session, history, events>>
    BY <1>2 DEF Shows, Calls, Has, Untouched
  <2>2. Standing /\ win'.ignoring = win.ignoring /\ Reports
    BY <1>1, <2>1, WindowOps DEF Standing, Reports
  <2> QED
    BY <2>1, <2>2, StandingKeeps
<1>3. CASE SessionEnds
  <2>1. /\ UNCHANGED <<win, manager, windows, ui, ipc>> /\ session' = "over"
        /\ events' = IF win.exists THEN Append(events, Call("ended", TRUE)) ELSE events
        /\ history' = [history EXCEPT !.missed = ~win.exists]
    BY <1>3 DEF SessionEnds, InterviewEnds, ToRenderer, windowVars
  <2>2. /\ history' \in History /\ history'.left = history.left /\ history'.stale = history.stale
        /\ history'.missed = ~win.exists
    BY <1>1, <2>1 DEF History, Window
  <2>3. Standing /\ Reports
    BY <1>1, <2>1, <2>2 DEF Standing, Reports
  <2>4. Honest
    BY <2>1 DEF Honest, News
  <2> QED
    BY <2>3, <2>4, StandingKeeps
<1>4. CASE Hotkey
  <2>1. history.steps < MaxSteps /\ history' = [history EXCEPT !.steps = history.steps + 1]
        /\ UNCHANGED <<ui, ipc, session>>
    BY <1>4 DEF Hotkey, Counted
  <2>2. history.steps + 1 \in 0..MaxSteps
    BY <1>1, <2>1 DEF History
  <2>3. history' \in History /\ history'.left = history.left /\ history'.stale = history.stale
        /\ history'.missed = history.missed
    BY <1>1, <2>1, <2>2 DEF History
  <2>4. CASE Calls(ToggleVisibility(win)) /\ UNCHANGED events
    <3>1. /\ win' = win \/ (win.exists /\ win' = ShowOverlay(win))
                        \/ (win.exists /\ win' = HideOverlay(win))
          /\ UNCHANGED <<manager, windows>>
      BY <2>4 DEF Calls, Has, ToggleVisibility
    <3>2. /\ win' \in Window /\ win'.exists = win.exists /\ win'.bounds = win.bounds
          /\ (win.protected => win'.protected) /\ win'.ignoring = win.ignoring
      <4>1. CASE win' = win
        BY <1>1, <4>1
      <4>2. CASE win.exists /\ win' = ShowOverlay(win)
        BY <1>1, <4>2, WindowOps DEF Window
      <4>3. CASE win.exists /\ win' = HideOverlay(win)
        BY <1>1, <4>3, WindowOps DEF Window
      <4> QED
        BY <3>1, <4>1, <4>2, <4>3
    <3>3. Standing /\ Reports
      BY <1>1, <2>1, <2>3, <2>4, <3>1, <3>2 DEF Standing, Reports
    <3> QED
      BY <2>4, <3>2, <3>3, StandingKeeps
  <2>5. CASE ToggleCaptureState /\ UNCHANGED events
    <3>1. /\ manager' = [manager EXCEPT !.captureActive = ~manager.captureActive]
          /\ UNCHANGED <<win, windows>>
      BY <2>5 DEF ToggleCaptureState
    <3>2. manager' \in Manager /\ manager'.collapsed = manager.collapsed
          /\ manager'.expanded = manager.expanded
      BY <1>1, <3>1 DEF Manager
    <3>3. Standing /\ Reports
      BY <1>1, <2>1, <2>3, <2>5, <3>1, <3>2 DEF Standing, Reports
    <3> QED
      BY <2>5, <3>1, <3>3, StandingKeeps
  <2>6. CASE ClickThrough(~manager.clickThrough)
    <3> DEFINE b == ~manager.clickThrough
    <3>1. b \in BOOLEAN
      OBVIOUS
    <3>2. /\ win' = IF win.exists THEN [win EXCEPT !.ignoring = b] ELSE win
          /\ manager' = [manager EXCEPT !.clickThrough = b] /\ windows' = windows
          /\ events' = IF win.exists THEN Append(events, Call("clickthrough", b)) ELSE events
      BY <2>6 DEF ClickThrough, SetClickThrough, Has, ToRenderer
    <3> HIDE DEF b
    <3>3. manager' \in Manager /\ manager'.collapsed = manager.collapsed
          /\ manager'.expanded = manager.expanded
      BY <1>1, <3>1, <3>2 DEF Manager
    <3>4. /\ win' \in Window /\ win'.exists = win.exists /\ win'.bounds = win.bounds
          /\ win'.protected = win.protected
          /\ win.exists => win'.ignoring = b
          /\ ~win.exists => win'.ignoring = win.ignoring
      BY <1>1, <3>1, <3>2 DEF Window
    <3>5. Standing /\ Reports
      BY <1>1, <2>1, <2>3, <3>1, <3>2, <3>3, <3>4 DEF Standing, Reports
    <3>6. Honest \/ (win'.ignoring = win.ignoring /\ events' = events)
      BY <3>1, <3>2, <3>4 DEF Honest
    <3> QED
      BY <3>5, <3>6, StandingKeeps
  <2> QED
    BY <1>4, <2>4, <2>5, <2>6 DEF Hotkey
<1> QED
  BY <1>2, <1>3, <1>4

-----------------------------------------------------------------------------
(* The window goes and comes, and events arrive *)

\* What the user makes the renderer do keeps everything.
LEMMA UserKeeps ==
    ASSUME AllInv, UserRenders
    PROVE  AllInv'
<1>1. ShapeInv /\ PrivateInv /\ StealthInv /\ EndedInv /\ WindowInv
  BY DEF AllInv
<1>2. PICK calls, u : Rendering(calls, u) /\ Unheard(calls, u) /\ Alone
  BY DEF UserRenders
<1>3. ShapeInv'
  BY <1>1, <1>2, RenderedShape DEF Rendering, Alone, ShapeInv
<1>4. PrivateInv' /\ StealthInv' /\ EndedInv' /\ WindowInv'
  BY <1>1, <1>2, PrivateRendered, StealthRendered, EndedRendered, CourseRendered
     DEF Alone, windowVars
<1> QED
  BY <1>3, <1>4 DEF AllInv

\* The expanded window is dragged while nothing is on its way: it is left there.
LEMMA DragKeeps ==
    ASSUME AllInv, DragWindow
    PROVE  AllInv'
<1>1. /\ ShapeInv /\ PrivateInv /\ StealthInv /\ EndedInv /\ WindowInv
      /\ win \in Window /\ manager \in Manager /\ history \in History /\ MaxSteps \in Nat
  BY ShellAssumption DEF AllInv, ShapeInv, ShellTypeOK
<1>2. PICK p \in Place : /\ win' = MoveTo(win, p)
                         /\ history' = [history EXCEPT !.steps = history.steps + 1, !.left = p]
  BY DEF DragWindow
<1>3. /\ win.exists /\ ~ui.collapsed /\ ipc = <<>> /\ history.steps < MaxSteps
      /\ UNCHANGED <<manager, windows, ui, ipc, events, session>>
  BY DEF DragWindow
<1>4. history.steps + 1 \in 0..MaxSteps
  BY <1>1, <1>3 DEF History
<1>5. /\ history' \in History /\ history'.left = p /\ history'.missed = history.missed
      /\ history'.stale = history.stale
  BY <1>1, <1>2, <1>4 DEF History
<1>6. /\ win' \in Window /\ win'.exists /\ win'.protected = win.protected
      /\ win'.ignoring = win.ignoring /\ win'.bounds.at = p
      /\ win'.bounds.height = win.bounds.height /\ win'.bounds.pill = win.bounds.pill
  BY <1>1, <1>2, <1>3, WindowOps
<1>7. Fresh(ui)'
  BY <1>1, <1>3 DEF ShapeInv, Fresh, OverlayMounted
<1>8. ShapeInv'
  BY <1>1, <1>3, <1>5, <1>6, <1>7 DEF ShapeInv, ShellTypeOK
<1>9. PrivateInv' /\ StealthInv' /\ EndedInv'
  BY <1>1, <1>3, <1>5, <1>6 DEF PrivateInv, StealthInv, EndedInv, OverlayMounted
<1>10. WindowInv'
  <2> SUFFICES ASSUME ~history.stale
               PROVE  (Placed /\ \E t \in Course : Leads(ipc, Here, t) /\ Suits(ui, t))'
    BY <1>5 DEF WindowInv
  <2>1. PICK t \in Course : Placed /\ Leads(ipc, Here, t) /\ Suits(ui, t)
    BY <1>1, <1>3 DEF WindowInv
  <2>2. Here = t
    <3>1. PICK f \in [0..Len(ipc) -> Course] : f[0] = Here /\ f[Len(ipc)] = t
      BY <2>1 DEF Leads
    <3>2. Len(ipc) = 0
      BY <1>3
    <3> QED
      BY <3>1, <3>2
  <2>3. manager.collapsed = FALSE
    BY <1>1, <1>3, <2>1, <2>2 DEF Suits, Here, Manager
  <2>4. Placed' /\ Here' = Here
    BY <1>3, <1>5, <1>6, <2>1, <2>3 DEF Placed, Here
  <2>5. \A r : (r = ipc') => (Leads(ipc, Here, t)' <=> Leads(r, Here', t))
    BY DEF Leads, Turns, Near, Clamped
  <2>6. Suits(ui, t)' <=> Suits(ui, t)
    BY <1>3 DEF Suits, ScreenHeight, Near, Clamped
  <2> QED
    BY <1>3, <2>1, <2>4, <2>5, <2>6
<1> QED
  BY <1>8, <1>9, <1>10 DEF AllInv

\* With the window go its renderer and what was on its way.
LEMMA ClosesKeeps ==
    ASSUME AllInv, Quits \/ WindowClosed
    PROVE  AllInv'
<1>1. /\ ShapeInv /\ EndedInv /\ win \in Window /\ history \in History /\ MaxSteps \in Nat
      /\ session \in {"none", "live", "over", "disposed"} /\ manager \in Manager
  BY ShellAssumption DEF AllInv, ShapeInv, ShellTypeOK
<1>2. PICK quits \in BOOLEAN : Closes(quits)
  BY DEF Quits, WindowClosed
<1>3. /\ win' = [win EXCEPT !.exists = FALSE] /\ UNCHANGED <<manager, windows>>
      /\ ui' = NewUi /\ ipc' = <<>> /\ events' = <<>>
      /\ session' = IF quits THEN "disposed" ELSE session
  BY <1>2 DEF Closes, WindowCloses
<1>4. win' \in Window /\ ~win'.exists
  BY <1>1, <1>3 DEF Window
<1>5. history' \in History
  <2>1. CASE UNCHANGED history
    BY <1>1, <2>1
  <2>2. CASE WindowClosed
    <3>1. history.steps < MaxSteps
          /\ history' = [history EXCEPT !.steps = history.steps + 1,
                                        !.missed = history.missed \/ Missing]
      BY <2>2 DEF WindowClosed
    <3>2. history.steps + 1 \in 0..MaxSteps
      BY <1>1, <3>1 DEF History
    <3> HIDE DEF AllInv
    <3> QED
      BY <1>1, <3>1, <3>2 DEF History
  <2> QED
    BY <2>1, <2>2 DEF Quits
<1>6. ShapeInv'
  <2>1. ui' \in Ui /\ Fresh(ui')
    BY <1>3, NewUiIs
  <2>2. Fresh(ui)'
    BY <2>1 DEF Fresh, OverlayMounted
  <2>3. NewUi' = NewUi
    BY DEF NewUi, Fewest
  <2>4. ipc' \in Seq(CallRecord) /\ events' \in Seq(EventRecord)
    BY <1>3
  <2> QED
    BY <1>1, <1>3, <1>4, <1>5, <2>1, <2>2, <2>3, <2>4 DEF ShapeInv, ShellTypeOK
<1>7. ui'.phase # "interview" /\ ~ui'.stealth /\ ui'.phase = "loading"
  BY <1>3, NewUiIs DEF NewUi
<1>8. PrivateInv'
  BY <1>7 DEF PrivateInv, OverlayMounted
<1>9. StealthInv'
  BY <1>3, <1>7, Single DEF StealthInv
<1>10. EndedInv'
  BY <1>3, <1>7, Single DEF EndedInv
<1>11. WindowInv'
  BY <1>4 DEF WindowInv
<1> QED
  BY <1>6, <1>8, <1>9, <1>10, <1>11 DEF AllInv

\* A window just made, and a renderer just loaded
JustMade ==
    /\ ui = NewUi /\ ipc = <<Call("height", 720)>>
    /\ win \in Window /\ ~win.bounds.pill /\ win.bounds.at = history.left
    /\ manager.collapsed = FALSE

\* They suit each other: the one call on its way brings the window to the
\* height of the first screen.
LEMMA NewSuits == JustMade => WindowInv
<1> SUFFICES ASSUME JustMade
             PROVE  Placed /\ \E t \in Course : Leads(ipc, Here, t) /\ Suits(ui, t)
  BY DEF WindowInv
<1> USE DEF JustMade
<1> DEFINE c == Call("height", 720)
           h == win.bounds.height
           to == IF Near(Clamped(720), h) THEN h ELSE Clamped(720)
           m == [collapsed |-> FALSE, height |-> to]
<1>1. c.type = "height" /\ c.value = 720 /\ h \in Int /\ Clamped(720) \in Int
  BY CallIs, Heights DEF Window, Bounds
<1>2. m \in Course /\ m.collapsed = FALSE /\ m.height = to
  BY <1>1 DEF Course
<1>3. win.bounds.pill = FALSE
  BY DEF Window, Bounds
<1>4. Near(to, Clamped(720))
  BY <1>1 DEF Near
<1>5. ScreenHeight(ui) = 720 /\ ~ui.collapsed /\ ui.collapsed = FALSE
  BY DEF NewUi, ScreenHeight
<1>6. Here \in Course /\ Here.height = h /\ Here.collapsed = FALSE
  BY <1>1 DEF Here, Course
<1> HIDE DEF c, m, h
<1>7. Suits(ui, m)
  BY <1>2, <1>4, <1>5 DEF Suits
<1>8. Turns(c, Here, m)
  <2>1. m.height = IF Near(Clamped(c.value), Here.height) THEN Here.height ELSE Clamped(c.value)
    BY <1>1, <1>2, <1>6
  <2> HIDE DEF to
  <2> QED
    BY <1>1, <1>2, <1>6, <2>1 DEF Turns
<1>9. Leads(<<c>>, Here, m)
  BY <1>2, <1>6, <1>8, LeadsSingle
<1>10. Placed
  BY <1>3 DEF Placed
<1> QED
  BY <1>2, <1>7, <1>9, <1>10 DEF c

\* A new window is made for a renderer that starts anew.
LEMMA ActivateKeeps ==
    ASSUME AllInv, Activate
    PROVE  AllInv'
<1>1. /\ ShapeInv /\ EndedInv /\ history \in History /\ ui = NewUi /\ events = <<>>
      /\ manager \in Manager /\ windows \in 1..MaxWindows /\ MaxWindows \in Nat
  BY WindowAssumption DEF AllInv, ShapeInv, ShellTypeOK, Activate, RecreateWindow
<1> DEFINE c == Call("height", 720)
<1>2. PICK p \in Place : win' = NewWindow(p)
  BY DEF Activate, RecreateWindow
<1>3. /\ ipc' = <<c>> /\ UNCHANGED <<manager, ui, events, session>>
      /\ history' = [history EXCEPT !.left = win'.bounds.at, !.stale = manager.collapsed]
      /\ windows' = windows + 1 /\ windows < MaxWindows
  BY DEF Activate, RecreateWindow
<1>4. /\ win' \in Window /\ win'.exists /\ win'.bounds.at = p /\ ~win'.bounds.pill
      /\ win'.protected
  BY <1>2, WindowAssumption DEF NewWindow, Window, Bounds
<1>5. /\ history' \in History /\ history'.left = p /\ history'.missed = history.missed
      /\ history'.stale = manager.collapsed /\ manager.collapsed \in BOOLEAN
  BY <1>1, <1>3, <1>4 DEF History, Manager
<1>6. c \in CallRecord /\ c.type = "height" /\ c = Call("height", 720)'
  BY CallIs
<1>7. NewUi' = NewUi
  BY DEF NewUi, Fewest
<1>8. ShapeInv'
  <2> HIDE DEF c
  <2>1. ipc' \in Seq(CallRecord)
    BY <1>3, <1>6
  <2>2. Fresh(ui)'
    BY <1>1, <1>3 DEF ShapeInv, Fresh, OverlayMounted
  <2>3. windows' \in 1..MaxWindows
    BY <1>1, <1>3
  <2> QED
    BY <1>1, <1>3, <1>4, <1>5, <2>1, <2>2, <2>3 DEF ShapeInv, ShellTypeOK
<1>9. ui'.phase # "interview" /\ ~ui'.stealth
  BY <1>1, <1>3, NewUiIs DEF NewUi
<1>10. PrivateInv'
  BY <1>9 DEF PrivateInv, OverlayMounted
<1>11. StealthInv'
  BY <1>1, <1>3, <1>9, Single DEF StealthInv
<1>12. EndedInv'
  BY <1>1, <1>3, <1>9, Single DEF EndedInv
<1>13. WindowInv'
  <2>1. CASE manager.collapsed
    BY <1>5, <2>1 DEF WindowInv
  <2>2. CASE ~manager.collapsed
    <3>1. JustMade'
      BY <1>1, <1>3, <1>4, <1>5, <1>6, <1>7, <2>2 DEF JustMade, Window, Bounds
    <3> QED
      BY <3>1, NewSuits, PTL
  <2> QED
    BY <2>1, <2>2
<1> QED
  BY <1>8, <1>10, <1>11, <1>12, <1>13 DEF AllInv

\* An event about click-through is what the Overlay then shows.
LEMMA StealthHeard ==
    ASSUME ShapeInv, StealthInv, events # <<>>, events' = Tail(events),
           win'.ignoring = win.ignoring,
           Absent(ipc', {"clickthrough"}) => Absent(ipc, {"clickthrough"}),
           ui'.stealth => IF Head(events).type = "clickthrough" THEN Head(events).value
                          ELSE ui.stealth
    PROVE  StealthInv'
<1> DEFINE T == {"clickthrough"}
           l == Call("clickthrough", win.ignoring)
           e == Head(events)
<1>1. events \in Seq(EventRecord)
  BY DEF ShapeInv
<1>2. l.type = "clickthrough" /\ l.value = win.ignoring /\ l = Call("clickthrough", win.ignoring)'
  BY CallIs
<1>3. Absent(events, T) \/ LastOf(events, T, l)
  BY DEF StealthInv
<1> HIDE DEF l
<1>4. CASE LastOf(events, T, l)
  <2>1. (e = l /\ Absent(events', T)) \/ LastOf(events', T, l)
    BY <1>1, <1>4, LastTaken
  <2>2. CASE e = l /\ Absent(events', T)
    BY <1>2, <2>2 DEF StealthInv
  <2>3. CASE LastOf(events', T, l)
    <3>1. ~Absent(events', T)
      BY <1>2, <2>3, LastThere
    <3> QED
      BY <1>2, <2>3, <3>1 DEF StealthInv
  <2> QED
    BY <2>1, <2>2, <2>3
<1>5. CASE Absent(events, T)
  <2>1. Absent(events', T) /\ e.type \notin T
    BY <1>1, <1>5, AbsentTaken
  <2> QED
    BY <1>5, <2>1 DEF StealthInv
<1> QED
  BY <1>3, <1>4, <1>5

\* The end is heard, or is missed.
LEMMA EndedHeard ==
    ASSUME ShapeInv, EndedInv, events # <<>>, events' = Tail(events), session' = session,
           history'.missed = history.missed \/ history'.missed,
           Head(events).type = "ended" => history'.missed \/ ui'.phase # "interview",
           Head(events).type = "clickthrough" =>
               (ui'.phase = "interview" => ui.phase = "interview")
    PROVE  EndedInv'
<1> DEFINE l == Call("ended", TRUE)
           e == Head(events)
<1>1. events \in Seq(EventRecord) /\ e \in EventRecord
  BY Taken DEF ShapeInv
<1>2. l.type = "ended"
  BY CallIs
<1> HIDE DEF l
<1> SUFFICES ASSUME session = "over", ~history'.missed
             PROVE  LastOf(events', News, l) \/ (Absent(events', News) /\ ui'.phase # "interview")
  BY DEF EndedInv, l
<1>3. LastOf(events, News, l) \/ (Absent(events, News) /\ ui.phase # "interview")
  BY DEF EndedInv, l
<1>4. CASE LastOf(events, News, l)
  <2>1. (e = l /\ Absent(events', News)) \/ LastOf(events', News, l)
    BY <1>1, <1>4, LastTaken
  <2> QED
    BY <1>2, <2>1
<1>5. CASE Absent(events, News) /\ ui.phase # "interview"
  <2>1. Absent(events', News) /\ e.type \notin News
    BY <1>1, <1>5, AbsentTaken
  <2>2. e.type = "clickthrough"
    BY <1>1, <2>1 DEF EventRecord, News
  <2> QED
    BY <1>5, <2>1, <2>2
<1> QED
  BY <1>3, <1>4, <1>5

\* An event arrives: what is rendered on it keeps to what renderings keep to.
LEMMA HearsRenders ==
    ASSUME ShapeInv, NEW e \in EventRecord, Receive(e)
    PROVE  \/ /\ UNCHANGED history
              /\ \E u : /\ Rendering(<<>>, u)
                        /\ u.stealth = IF e.type = "clickthrough" THEN e.value ELSE ui.stealth
                        /\ e.type = "ended" => u.phase # "interview"
                        /\ e.type = "clickthrough" => u.phase = ui.phase
           \/ /\ e.type = "ended" /\ UNCHANGED <<ui, ipc>>
              /\ history' = [history EXCEPT !.missed = TRUE]
<1>1. ui \in Ui /\ <<>> \in Seq(CallRecord) /\ Absent(<<>>, {"private"})
  BY DEF ShapeInv, ShellTypeOK, Absent
<1>2. CASE e.type = "started"
  <2>1. PICK h \in IF OverlayMounted(ui) THEN {ui.content} ELSE Content :
           Renders(<<>>, [ui EXCEPT !.phase = "interview", !.content = h])
    BY <1>2 DEF Receive
  <2> DEFINE u == [ui EXCEPT !.phase = "interview", !.content = h]
  <2>2. h \in Content /\ (OverlayMounted(ui) => h = ui.content)
    BY <1>1, <2>1 DEF Ui
  <2>3. /\ u \in Ui /\ u.collapsed = ui.collapsed /\ u.private = ui.private
        /\ u.stealth = ui.stealth /\ u.content = h
    BY <1>1, <2>2 DEF Ui, Phase
  <2>4. Renders(<<>>, u)
    BY <2>1
  <2> HIDE DEF u
  <2>5. Carries(<<>>, u)
    BY <2>2, <2>3, CarriesOn
  <2>6. Rendering(<<>>, u)
    BY <1>1, <2>3, <2>4, <2>5 DEF Rendering
  <2>7. UNCHANGED history
    BY <1>2 DEF Receive
  <2> QED
    BY <1>2, <2>3, <2>6, <2>7
<1>3. CASE e.type = "ended" /\ OverlayMounted(ui)
  <2> DEFINE u == [ui EXCEPT !.phase = "ready", !.step = "start"]
  <2>1. Renders(<<>>, u) /\ UNCHANGED history
    BY <1>3 DEF Receive
  <2>2. /\ u \in Ui /\ u.collapsed = ui.collapsed /\ u.private = ui.private
        /\ u.stealth = ui.stealth /\ u.content = ui.content /\ u.phase = "ready"
    BY <1>1 DEF Ui, Phase
  <2> HIDE DEF u
  <2>3. Carries(<<>>, u)
    BY <2>2, CarriesOn
  <2>4. Rendering(<<>>, u)
    BY <1>1, <2>1, <2>2, <2>3 DEF Rendering
  <2> QED
    BY <1>3, <2>1, <2>2, <2>4
<1>4. CASE e.type = "ended" /\ ~OverlayMounted(ui)
  BY <1>4 DEF Receive
<1>5. CASE e.type = "clickthrough"
  <2> DEFINE u == [ui EXCEPT !.stealth = e.value]
  <2>1. Renders(<<>>, u) /\ UNCHANGED history
    BY <1>5 DEF Receive
  <2>2. /\ u \in Ui /\ u.collapsed = ui.collapsed /\ u.private = ui.private
        /\ u.stealth = e.value /\ u.content = ui.content /\ u.phase = ui.phase
    BY <1>1 DEF Ui, EventRecord
  <2> HIDE DEF u
  <2>3. Carries(<<>>, u)
    BY <2>2, CarriesOn
  <2>4. Rendering(<<>>, u)
    BY <1>1, <2>1, <2>2, <2>3 DEF Rendering
  <2> QED
    BY <1>5, <2>1, <2>2, <2>4
<1> QED
  BY <1>2, <1>3, <1>4, <1>5 DEF EventRecord

\* Hearing keeps everything.
LEMMA HearsKeeps ==
    ASSUME AllInv, RendererHears
    PROVE  AllInv'
<1> DEFINE e == Head(events)
<1>1. /\ ShapeInv /\ PrivateInv /\ StealthInv /\ EndedInv /\ WindowInv
      /\ events \in Seq(EventRecord) /\ events # <<>> /\ win.exists /\ history \in History
      /\ ipc \in Seq(CallRecord)
  BY DEF AllInv, ShapeInv, ShellTypeOK, RendererHears
<1>2. Receive(e) /\ events' = Tail(events) /\ UNCHANGED <<windowVars, session>>
      /\ UNCHANGED <<win, manager, windows>>
  BY DEF RendererHears, windowVars
<1>3. e \in EventRecord /\ events' \in Seq(EventRecord)
  BY <1>1, <1>2, Taken
<1>4. CASE /\ e.type = "ended" /\ UNCHANGED <<ui, ipc>>
           /\ history' = [history EXCEPT !.missed = TRUE]
  <2>1. /\ history' \in History /\ history'.left = history.left /\ history'.stale = history.stale
        /\ history'.missed
    BY <1>1, <1>4 DEF History
  <2>2. StealthInv'
    BY <1>1, <1>2, <1>4, StealthHeard
  <2>3. EndedInv'
    BY <2>1 DEF EndedInv
  <2>4. Fresh(ui)'
    BY <1>1, <1>4 DEF ShapeInv, Fresh, OverlayMounted
  <2>5. ShapeInv'
    BY <1>1, <1>2, <1>3, <1>4, <2>1, <2>4 DEF ShapeInv, ShellTypeOK
  <2>6. PrivateInv'
    BY <1>1, <1>2, <1>4 DEF PrivateInv, OverlayMounted
  <2>7. WindowInv'
    <3> SUFFICES ASSUME ~history.stale
                 PROVE  (Placed /\ \E t \in Course : Leads(ipc, Here, t) /\ Suits(ui, t))'
      BY <2>1 DEF WindowInv
    <3>1. PICK t \in Course : Placed /\ Leads(ipc, Here, t) /\ Suits(ui, t)
      BY <1>1 DEF WindowInv
    <3>2. Here' = Here /\ Placed'
      BY <1>2, <2>1, <3>1 DEF Here, Placed
    <3>3. \A r : (r = ipc') => (Leads(ipc, Here, t)' <=> Leads(r, Here', t))
      BY DEF Leads, Turns, Near, Clamped
    <3>4. Suits(ui, t)' <=> Suits(ui, t)
      BY <1>4 DEF Suits, ScreenHeight, Near, Clamped
    <3> QED
      BY <1>4, <3>1, <3>2, <3>3, <3>4
  <2> QED
    BY <2>2, <2>3, <2>5, <2>6, <2>7 DEF AllInv
<1>5. CASE /\ UNCHANGED history
           /\ \E u : /\ Rendering(<<>>, u)
                     /\ u.stealth = IF e.type = "clickthrough" THEN e.value ELSE ui.stealth
                     /\ e.type = "ended" => u.phase # "interview"
                     /\ e.type = "clickthrough" => u.phase = ui.phase
  <2>1. PICK u : /\ Rendering(<<>>, u)
                 /\ u.stealth = IF e.type = "clickthrough" THEN e.value ELSE ui.stealth
                 /\ e.type = "ended" => u.phase # "interview"
                 /\ e.type = "clickthrough" => u.phase = ui.phase
    BY <1>5
  <2>2. /\ u \in Ui /\ ui' = Forgets(u) /\ Effects(ui, u) \in Seq(CallRecord)
        /\ <<>> \in Seq(CallRecord) /\ ipc \o <<>> \in Seq(CallRecord)
        /\ ipc' = (ipc \o <<>>) \o Effects(ui, u)
    BY <1>1, <2>1, RenderedParts
  <2>3. ui'.phase = u.phase /\ (ui'.stealth => u.stealth)
    BY <2>2, ForgetsWhat
  <2>4. Absent(ipc', {"clickthrough"}) => Absent(ipc, {"clickthrough"})
    BY <1>1, <2>2, AbsentJoined
  <2>5. ShapeInv'
    BY <1>1, <1>2, <1>3, <1>5, <2>1, <2>2, RenderedShape DEF Rendering
  <2>6. PrivateInv' /\ WindowInv'
    BY <1>1, <1>2, <1>5, <2>1, PrivateRendered, CourseRendered
  <2>7. StealthInv'
    BY <1>1, <1>2, <2>1, <2>3, <2>4, StealthHeard
  <2>8. EndedInv'
    BY <1>1, <1>2, <1>5, <2>1, <2>3, EndedHeard
  <2> QED
    BY <2>5, <2>6, <2>7, <2>8 DEF AllInv
<1> HIDE DEF e
<1> QED
  BY <1>1, <1>2, <1>3, <1>4, <1>5, HearsRenders

-----------------------------------------------------------------------------
(* The theorems *)

\* At first there is a window just made and a renderer just loaded.
LEMMA InitKeeps == ShellInit => AllInv
<1> SUFFICES ASSUME ShellInit PROVE AllInv
  OBVIOUS
<1> DEFINE c == Call("height", 720)
<1>1. PICK p \in Place : win = NewWindow(p)
  BY DEF ShellInit, WindowInit
<1>2. /\ win \in Window /\ win.exists /\ ~win.bounds.pill /\ win.bounds.at = p
  BY <1>1, WindowAssumption DEF NewWindow, Window, Bounds
<1>3. /\ ui = NewUi /\ ipc = <<c>> /\ events = <<>> /\ session = "none"
      /\ history = [left |-> p, missed |-> FALSE, stale |-> FALSE, steps |-> 0]
      /\ manager = NewManager /\ windows = 1
  BY <1>2 DEF ShellInit, WindowInit
<1>4. /\ manager \in Manager /\ manager.collapsed = FALSE /\ history \in History
      /\ history.left = p /\ windows \in 1..MaxWindows
  BY <1>3, WindowAssumption, ShellAssumption DEF NewManager, Manager, History
<1>5. c \in CallRecord
  BY CallIs
<1>6. ShapeInv
  <2> HIDE DEF c
  <2>1. ipc \in Seq(CallRecord) /\ events \in Seq(EventRecord)
    BY <1>3, <1>5
  <2>2. ui \in Ui /\ Fresh(ui)
    BY <1>3, NewUiIs
  <2> QED
    BY <1>2, <1>3, <1>4, <2>1, <2>2 DEF ShapeInv, ShellTypeOK
<1>7. ui.phase = "loading" /\ ~ui.stealth
  BY <1>3 DEF NewUi
<1>8. PrivateInv /\ StealthInv /\ EndedInv
  <2>1. Absent(events, {"clickthrough"})
    BY <1>3, Single
  <2> QED
    BY <1>3, <1>7, <2>1 DEF PrivateInv, StealthInv, EndedInv, OverlayMounted
<1>9. WindowInv
  BY <1>2, <1>3, <1>4, NewSuits DEF JustMade
<1> QED
  BY <1>6, <1>8, <1>9 DEF AllInv

\* A step that changes nothing keeps everything.
LEMMA StutterKeeps == AllInv /\ UNCHANGED vars => AllInv'
<1> SUFFICES ASSUME AllInv, UNCHANGED vars PROVE AllInv'
  OBVIOUS
<1>1. UNCHANGED <<win, manager, windows, ui, ipc, events, session, history>>
  BY DEF vars, windowVars
<1>2. Standing /\ Reports /\ win'.ignoring = win.ignoring /\ events' = events
  BY <1>1 DEF AllInv, ShapeInv, ShellTypeOK, Standing, Reports
<1> QED
  BY <1>2, StandingKeeps

\* Every step keeps everything.
LEMMA NextKeeps == AllInv /\ [Next]_vars => AllInv'
<1> SUFFICES ASSUME AllInv, [Next]_vars PROVE AllInv'
  OBVIOUS
<1>1. ShapeInv
  BY DEF AllInv
<1>2. CASE \/ Boots \/ SignsIn \/ CreateFree \/ Back \/ StartInterview \/ StopInterview \/ Close
           \/ Collapse \/ Expand \/ DragPill
           \/ TogglePrivate \/ ToggleStealth \/ ContentChanges
  BY <1>1, <1>2, ScreensRender, PillRenders, OverlayRenders, UserKeeps
<1>3. CASE DragWindow \/ MainHandles \/ Shows \/ Hotkey \/ SessionEnds
  BY <1>3, DragKeeps, MainHandlesKeeps, MainStands
<1>4. CASE Quits \/ WindowClosed \/ Activate \/ RendererHears
  BY <1>4, ClosesKeeps, ActivateKeeps, HearsKeeps
<1> QED
  BY <1>2, <1>3, <1>4, StutterKeeps DEF Next

\* At rest the window is on its course, and the course suits the screen.
LEMMA RestSuits ==
    ASSUME AllInv, AtRest, ~history.stale
    PROVE  Placed /\ Suits(ui, Here)
<1>1. PICK t \in Course : Placed /\ Leads(ipc, Here, t) /\ Suits(ui, t)
  BY DEF AllInv, WindowInv, AtRest
<1>2. PICK f \in [0..Len(ipc) -> Course] : f[0] = Here /\ f[Len(ipc)] = t
  BY <1>1 DEF Leads
<1>3. Len(ipc) = 0
  BY DEF AtRest
<1> QED
  BY <1>1, <1>2, <1>3

\* What the invariant says of a shell at rest
LEMMA AtRestIs == AllInv => PrivateIsProtected /\ StealthIsShown /\ EndedIsShown /\ WindowFits
<1> SUFFICES ASSUME AllInv
             PROVE  PrivateIsProtected /\ StealthIsShown /\ EndedIsShown /\ WindowFits
  OBVIOUS
<1>1. ASSUME NEW T, NEW m PROVE ~LastOf(<<>>, T, m) /\ Absent(<<>>, T)
  BY DEF LastOf, Absent
<1>2. PrivateIsProtected
  BY <1>1 DEF AllInv, PrivateInv, PrivateIsProtected, AtRest
<1>3. StealthIsShown
  BY <1>1 DEF AllInv, StealthInv, StealthIsShown, AtRest
<1>4. EndedIsShown
  BY <1>1 DEF AllInv, EndedInv, EndedIsShown, AtRest
<1>5. WindowFits
  <2> SUFFICES ASSUME AtRest, ~history.stale PROVE SizeFits /\ PlaceIsKept
    BY DEF WindowFits
  <2>1. Placed /\ Suits(ui, Here) /\ ui.collapsed \in BOOLEAN /\ manager.collapsed \in BOOLEAN
    BY RestSuits DEF AllInv, ShapeInv, ShellTypeOK, Ui, Manager
  <2>2. manager.collapsed = ui.collapsed
    BY <2>1 DEF Suits, Here
  <2>3. ~ui.collapsed => Near(win.bounds.height, Clamped(ScreenHeight(ui)))
    BY <2>1, <2>2 DEF Suits, Here
  <2> QED
    BY <2>1, <2>2, <2>3 DEF Placed, SizeFits, PlaceIsKept
<1> QED
  BY <1>2, <1>3, <1>4, <1>5

\* The invariant always holds.
LEMMA AllAlways == Spec => []AllInv
BY InitKeeps, NextKeeps, PTL DEF Spec

\* The shell keeps its types (App.tsx, windowManager.ts): what is in a window
\* that is gone, too.
THEOREM ShellTypeCorrect == Spec => []ShellTypeOK
<1>1. AllInv => ShellTypeOK
  BY DEF AllInv, ShapeInv
<1> QED
  BY <1>1, AllAlways, PTL

\* PrivateIsProtected, of Overlay.tsx:152 and windowManager.ts:setPrivateMode:
\* an Overlay that shows private mode as on has its window excluded from screen
\* capture once its calls are handled, whatever toggles, collapses, hotkeys and
\* new windows came before.
THEOREM PrivateAlwaysProtected == Spec => []PrivateIsProtected
BY AllAlways, AtRestIs, PTL

\* StealthIsShown, of Overlay.tsx:222 and windowManager.ts:setClickThrough: the
\* Overlay never claims a click-through that is not, however its button and the
\* hotkey cross.
THEOREM StealthAlwaysShown == Spec => []StealthIsShown
BY AllAlways, AtRestIs, PTL

\* EndedIsShown, of App.tsx:108: an interview that is over leaves the screen,
\* unless its end found no Overlay.
THEOREM EndAlwaysShown == Spec => []EndedIsShown
BY AllAlways, AtRestIs, PTL

\* WindowFits, of windowManager.ts:295 and App.tsx: at rest the window is where
\* it was left and as large as its screen, for all orders in which heights,
\* collapses, drags and screens cross.
THEOREM WindowAlwaysFits == Spec => []WindowFits
BY AllAlways, AtRestIs, PTL
=============================================================================
