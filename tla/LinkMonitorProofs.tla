-------------------------- MODULE LinkMonitorProofs --------------------------
(***************************************************************************)
(* SettledAgrees and GoingDownThenDown for any devices and any number of   *)
(* events.  Both need to know what is in the queue: the last task of a     *)
(* device is what was told of it, and a Link_Going_Down is paired with the *)
(* Link_Down behind it, or its device is being closed.                     *)
(***************************************************************************)
EXTENDS LinkMonitor, TLAPS

\* No task of device d at the positions of queue q from i to j.
None(q, d, i, j) == \A k \in i..j : q[k].dev # d

\* What was last told of a device, t, is at its last position in the queue q, or
\* was indicated, in l.
QueueTold(q, l, t) ==
  \A d \in Device :
    /\ None(q, d, 1, Len(q)) => l[d] = t[d]
    /\ \A i \in 1..Len(q) :
         (q[i].dev = d /\ None(q, d, i + 1, Len(q))) => q[i].handler = t[d]

\* The task at j comes next after i for the same device.
Follows(q, i, j) == i < j /\ q[i].dev = q[j].dev /\ None(q, q[j].dev, i + 1, j - 1)

First(q, j) == None(q, q[j].dev, 1, j - 1)

\* The task that follows a Link_Going_Down of the same device is a Link_Down,
\* also when the Link_Going_Down was already indicated.
QueuePaired(q, l) ==
  \A j \in 1..Len(q) :
    /\ (First(q, j) /\ l[q[j].dev] = "Link_Going_Down") => q[j].handler = "Link_Down"
    /\ \A i \in 1..Len(q) :
         (Follows(q, i, j) /\ q[i].handler = "Link_Going_Down")
           => q[j].handler = "Link_Down"

\* Only a device that is being closed was told to be going down, and only one
\* thread holds the rtnl lock.
ClosingTold ==
  /\ \A d \in Device : told[d] = "Link_Going_Down" => d \in closing \cap Ethernet
  /\ replay = {} \/ closing = {}

\* What was told of a device is what ReportedUp says, unless something is under
\* way.  NETDEV_CHANGE is not notified before the replay is over.
StateTold ==
  \A d \in Ethernet :
    /\ (d \in up /\ d \notin replay \cup closing \cup linkwatch)
         => told[d] = IF ReportedUp(d) THEN "Link_Up" ELSE "Link_Down"
    /\ d \notin up => told[d] # "Link_Up"
    /\ d \in replay => d \notin changed

IInv ==
  /\ TypeOK
  /\ QueueTold(queue, last, told)
  /\ QueuePaired(queue, last)
  /\ ClosingTold
  /\ StateTold

Event == {"NETDEV_GOING_DOWN", "NETDEV_DOWN", "NETDEV_UP", "NETDEV_CHANGE"}

Told == [Device -> Indication \cup {"none"}]

-----------------------------------------------------------------------------
(* The queue                                                               *)

\* A task that is added at the end (queue_task) is what was last told.
LEMMA AppendTold ==
  ASSUME NEW q \in Seq(Task), NEW l \in Told, NEW t \in Told, QueueTold(q, l, t),
         NEW x \in Task
  PROVE  QueueTold(Append(q, x), l, [t EXCEPT ![x.dev] = x.handler])
<1> DEFINE r == Append(q, x)
           n == Len(q)
           s == [t EXCEPT ![x.dev] = x.handler]
<1>1. /\ n \in Nat /\ Len(r) = n + 1 /\ r[n + 1] = x
      /\ \A i \in 1..n : r[i] = q[i]
  OBVIOUS
<1>2. /\ x.dev \in Device /\ s[x.dev] = x.handler
      /\ \A d \in Device : d # x.dev => s[d] = t[d]
  BY DEF Task, Told
<1> HIDE DEF r, s
<1> SUFFICES ASSUME NEW d \in Device
             PROVE  /\ None(r, d, 1, n + 1) => l[d] = s[d]
                    /\ \A i \in 1..(n + 1) :
                         (r[i].dev = d /\ None(r, d, i + 1, n + 1)) => r[i].handler = s[d]
  BY <1>1, Zenon DEF QueueTold, r, s
<1> HIDE DEF n
<1>3. CASE d = x.dev
  <2>1. \A i \in 1..(n + 1) : None(r, d, i, n + 1) => FALSE
    BY <1>1, <1>3 DEF None
  <2>2. \A i \in 1..(n + 1) : None(r, d, i + 1, n + 1) => i = n + 1
    BY <1>1, <2>1
  <2> QED
    BY <1>1, <1>2, <1>3, <2>1, <2>2
<1>4. CASE d # x.dev
  <2>1. \A i \in 1..(n + 1) : r[i].dev = d => i \in 1..n
    BY <1>1, <1>4
  <2>2. \A i \in 1..(n + 1) : None(r, d, i, n + 1) => None(q, d, i, n)
    BY <1>1 DEF None
  <2>3. /\ None(q, d, 1, n) => l[d] = t[d]
        /\ \A i \in 1..n : (q[i].dev = d /\ None(q, d, i + 1, n)) => q[i].handler = t[d]
    BY DEF QueueTold, n
  <2>4. None(r, d, 1, n + 1) => l[d] = s[d]
    BY <1>1, <1>2, <1>4, <2>2, <2>3
  <2>5. ASSUME NEW i \in 1..(n + 1), r[i].dev = d, None(r, d, i + 1, n + 1)
        PROVE  r[i].handler = s[d]
    <3>1. i \in 1..n /\ r[i] = q[i]
      BY <1>1, <2>1, <2>5
    <3>2. None(q, d, i + 1, n)
      BY <1>1, <2>2, <2>5, <3>1
    <3> QED
      BY <1>2, <1>4, <2>3, <2>5, <3>1, <3>2
  <2> QED
    BY <2>4, <2>5
<1> QED
  BY <1>3, <1>4

\* A task that is added at the end keeps the pairs, if it is a Link_Down when its
\* device was last told to be going down.
LEMMA AppendPaired ==
  ASSUME NEW q \in Seq(Task), NEW l \in Told, NEW t \in Told,
         QueueTold(q, l, t), QueuePaired(q, l),
         NEW x \in Task, t[x.dev] = "Link_Going_Down" => x.handler = "Link_Down"
  PROVE  QueuePaired(Append(q, x), l)
<1> DEFINE r == Append(q, x)
           n == Len(q)
<1>1. /\ n \in Nat /\ Len(r) = n + 1 /\ r[n + 1] = x
      /\ \A i \in 1..n : r[i] = q[i]
  OBVIOUS
<1>2. x.dev \in Device
  BY DEF Task
<1> HIDE DEF r
<1> SUFFICES ASSUME NEW j \in 1..(n + 1)
             PROVE  /\ (First(r, j) /\ l[r[j].dev] = "Link_Going_Down")
                         => r[j].handler = "Link_Down"
                    /\ \A i \in 1..(n + 1) :
                         (Follows(r, i, j) /\ r[i].handler = "Link_Going_Down")
                           => r[j].handler = "Link_Down"
  BY <1>1 DEF QueuePaired, r
<1> HIDE DEF n
<1>3. CASE j \in 1..n
  <2>1. r[j] = q[j]
    BY <1>1, <1>3
  <2>2. First(r, j) => First(q, j)
    BY <1>1, <1>3, <2>1 DEF First, None
  <2>3. ASSUME NEW i \in 1..(n + 1), Follows(r, i, j)
        PROVE  i \in 1..n /\ r[i] = q[i] /\ Follows(q, i, j)
    <3>1. i \in 1..n /\ i < j
      BY <1>1, <1>3, <2>3 DEF Follows
    <3>2. r[i] = q[i]
      BY <1>1, <3>1
    <3>3. None(q, q[j].dev, i + 1, j - 1)
      BY <1>1, <1>3, <2>1, <2>3, <3>1 DEF Follows, None
    <3> QED
      BY <2>1, <2>3, <3>1, <3>2, <3>3 DEF Follows
  <2> QED
    BY <1>3, <2>1, <2>2, <2>3 DEF QueuePaired, n
<1>4. CASE j = n + 1
  <2>1. r[j] = x
    BY <1>1, <1>4
  <2>2. First(r, j) => None(q, x.dev, 1, n)
    BY <1>1, <1>4, <2>1 DEF First, None
  <2>3. First(r, j) => l[x.dev] = t[x.dev]
    BY <1>2, <2>2 DEF QueueTold, n
  <2>4. ASSUME NEW i \in 1..(n + 1), Follows(r, i, j)
        PROVE  r[i].handler = t[x.dev]
    <3>1. i \in 1..n /\ r[i] = q[i]
      BY <1>1, <1>4, <2>4 DEF Follows
    <3>2. q[i].dev = x.dev /\ None(q, x.dev, i + 1, n)
      BY <1>1, <1>4, <2>1, <2>4, <3>1 DEF Follows, None
    <3> QED
      BY <1>2, <3>1, <3>2 DEF QueueTold, n
  <2> QED
    BY <2>1, <2>3, <2>4
<1> QED
  BY <1>1, <1>3, <1>4

\* An indication that is given (Link_Up_indication and the others) leaves the rest
\* of the queue as it should be; a device that was going down goes down with it.
LEMMA TailQueue ==
  ASSUME NEW q \in Seq(Task), q # << >>, NEW l \in Told, NEW t \in Told,
         QueueTold(q, l, t), QueuePaired(q, l)
  PROVE  LET m == [l EXCEPT ![Head(q).dev] = Head(q).handler] IN
         /\ QueueTold(Tail(q), m, t)
         /\ QueuePaired(Tail(q), m)
         /\ l[Head(q).dev] = "Link_Going_Down" => Head(q).handler = "Link_Down"
<1> DEFINE x == Head(q)
           r == Tail(q)
           n == Len(r)
           m == [l EXCEPT ![x.dev] = x.handler]
<1>1. /\ n \in Nat /\ Len(q) = n + 1 /\ q[1] = x /\ x \in Task
      /\ \A i \in 1..n : r[i] = q[i + 1]
  OBVIOUS
<1>2. /\ x.dev \in Device /\ m[x.dev] = x.handler
      /\ \A d \in Device : d # x.dev => m[d] = l[d]
  BY <1>1 DEF Task, Told
<1>3. \A i \in 1..n : r[i].dev \in Device
  <2>1. \A i \in 1..n : i + 1 \in 1..Len(q)
    BY <1>1
  <2>2. \A i \in 1..Len(q) : q[i] \in Task
    OBVIOUS
  <2>3. \A y \in Task : y.dev \in Device
    BY DEF Task
  <2> QED
    BY <1>1, <2>1, <2>2, <2>3
<1> HIDE DEF x, r, n, m
<1>4. \A d \in Device, i \in Nat \ {0}, j \in 0..n :
        None(r, d, i, j) => None(q, d, i + 1, j + 1)
  <2> SUFFICES ASSUME NEW d \in Device, NEW i \in Nat \ {0}, NEW j \in 0..n,
                      None(r, d, i, j), NEW k \in (i + 1)..(j + 1)
               PROVE  q[k].dev # d
    BY DEF None
  <2>1. k - 1 \in i..j /\ k - 1 \in 1..n /\ (k - 1) + 1 = k
    BY <1>1
  <2> QED
    BY <1>1, <2>1, Zenon DEF None
<1>5. \A d \in Device, j \in 0..n :
        (None(r, d, 1, j) /\ d # x.dev) => None(q, d, 1, j + 1)
  <2> SUFFICES ASSUME NEW d \in Device, NEW j \in 0..n, None(r, d, 1, j), d # x.dev,
                      NEW k \in 1..(j + 1)
               PROVE  q[k].dev # d
    BY DEF None
  <2>1. CASE k = 1
    BY <1>1, <2>1
  <2>2. CASE k # 1
    <3>1. k - 1 \in 1..j /\ k - 1 \in 1..n /\ (k - 1) + 1 = k
      BY <1>1, <2>2
    <3> QED
      BY <1>1, <3>1, Zenon DEF None
  <2> QED
    BY <2>1, <2>2
<1>6. QueueTold(r, m, t)
  <2> SUFFICES ASSUME NEW d \in Device
               PROVE  /\ None(r, d, 1, n) => m[d] = t[d]
                      /\ \A i \in 1..n :
                           (r[i].dev = d /\ None(r, d, i + 1, n)) => r[i].handler = t[d]
    BY Zenon DEF QueueTold, n
  <2>1. /\ None(q, d, 1, n + 1) => l[d] = t[d]
        /\ \A i \in 1..(n + 1) :
             (q[i].dev = d /\ None(q, d, i + 1, n + 1)) => q[i].handler = t[d]
    BY <1>1 DEF QueueTold
  <2>2. None(r, d, 1, n) => m[d] = t[d]
    <3>1. CASE d # x.dev
      BY <1>1, <1>2, <1>5, <2>1, <3>1
    <3>2. CASE d = x.dev
      <4>1. None(r, d, 1, n) => None(q, d, 1 + 1, n + 1)
        BY <1>1, <1>4
      <4> QED
        BY <1>1, <1>2, <2>1, <3>2, <4>1
    <3> QED
      BY <3>1, <3>2
  <2>3. ASSUME NEW i \in 1..n, r[i].dev = d, None(r, d, i + 1, n)
        PROVE  r[i].handler = t[d]
    <3>1. None(q, d, (i + 1) + 1, n + 1) /\ i + 1 \in 1..(n + 1)
      BY <1>1, <1>4, <2>3
    <3> QED
      BY <1>1, <2>1, <2>3, <3>1
  <2> QED
    BY <2>2, <2>3
<1>7. QueuePaired(r, m)
  <2> SUFFICES ASSUME NEW j \in 1..n
               PROVE  /\ (First(r, j) /\ m[r[j].dev] = "Link_Going_Down")
                           => r[j].handler = "Link_Down"
                      /\ \A i \in 1..n :
                           (Follows(r, i, j) /\ r[i].handler = "Link_Going_Down")
                             => r[j].handler = "Link_Down"
    BY DEF QueuePaired, n
  <2>1. /\ j + 1 \in 1..(n + 1) /\ r[j] = q[j + 1] /\ r[j].dev \in Device
        /\ j - 1 \in 0..n
    BY <1>1, <1>3
  <2>2. /\ (First(q, j + 1) /\ l[q[j + 1].dev] = "Link_Going_Down")
             => q[j + 1].handler = "Link_Down"
        /\ \A i \in 1..(n + 1) :
             (Follows(q, i, j + 1) /\ q[i].handler = "Link_Going_Down")
               => q[j + 1].handler = "Link_Down"
    BY <1>1, <2>1 DEF QueuePaired
  <2>3. ASSUME First(r, j), m[r[j].dev] = "Link_Going_Down"
        PROVE  r[j].handler = "Link_Down"
    <3>1. None(r, r[j].dev, 1, j - 1)
      BY <2>3 DEF First
    <3>2. (j - 1) + 1 = (j + 1) - 1
      OBVIOUS
    <3>3. CASE r[j].dev # x.dev
      <4>1. First(q, j + 1)
        BY <1>5, <2>1, <3>1, <3>2, <3>3 DEF First
      <4> QED
        BY <1>2, <2>1, <2>2, <2>3, <3>3, <4>1
    <3>4. CASE r[j].dev = x.dev
      <4>1. None(q, r[j].dev, 1 + 1, (j + 1) - 1)
        BY <1>4, <2>1, <3>1, <3>2
      <4>2. Follows(q, 1, j + 1)
        BY <1>1, <2>1, <3>4, <4>1 DEF Follows
      <4>3. 1 \in 1..(n + 1)
        BY <1>1
      <4> QED
        BY <1>1, <1>2, <2>1, <2>2, <2>3, <3>4, <4>2, <4>3
    <3> QED
      BY <3>3, <3>4
  <2>4. ASSUME NEW i \in 1..n, Follows(r, i, j), r[i].handler = "Link_Going_Down"
        PROVE  r[j].handler = "Link_Down"
    <3>1. /\ i < j /\ r[i].dev = r[j].dev /\ None(r, r[j].dev, i + 1, j - 1)
      BY <2>4 DEF Follows
    <3>2. None(q, r[j].dev, (i + 1) + 1, (j + 1) - 1)
      BY <1>1, <1>4, <2>1, <3>1
    <3>3. i + 1 \in 1..(n + 1) /\ r[i] = q[i + 1] /\ i + 1 < j + 1
      BY <1>1, <3>1
    <3>4. Follows(q, i + 1, j + 1)
      BY <2>1, <3>1, <3>2, <3>3 DEF Follows
    <3> QED
      BY <2>1, <2>2, <2>4, <3>3, <3>4
  <2> QED
    BY <2>3, <2>4
<1>8. l[x.dev] = "Link_Going_Down" => x.handler = "Link_Down"
  <2>1. 1 \in 1..Len(q) /\ First(q, 1)
    BY <1>1 DEF First, None
  <2> QED
    BY <1>1, <2>1 DEF QueuePaired
<1> QED
  BY <1>6, <1>7, <1>8 DEF x, r, m

-----------------------------------------------------------------------------
(* The notifier                                                            *)

\* The switch of NetDevNotifier (dev_mon.c 77-103) makes a task of the device.
LEMMA TaskForType ==
  ASSUME NEW event \in Event, NEW d \in Device
  PROVE  /\ TaskFor(event, d) \in Task
         /\ TaskFor(event, d).dev = d
         /\ event = "NETDEV_DOWN" => TaskFor(event, d).handler = "Link_Down"
         /\ event = "NETDEV_UP" => TaskFor(event, d).handler = "Link_Up"
         /\ event = "NETDEV_GOING_DOWN" => TaskFor(event, d).handler = "Link_Going_Down"
         /\ event = "NETDEV_CHANGE" =>
              TaskFor(event, d).handler = IF d \in carrier THEN "Link_Up" ELSE "Link_Down"
  BY DEF Event, TaskFor, Task, Indication, DevLinkUp, DevLinkDown, DevLinkGoingDown

QueueInv == QueueTold(queue, last, told) /\ QueuePaired(queue, last)

\* A notification (queue_task at dev_mon.c 237, 259, 286) keeps the queue as it
\* should be, if it is a NETDEV_DOWN when the device was going down, and tells
\* only of its device.
LEMMA Notified ==
  ASSUME TypeOK, QueueInv, NEW event \in Event, NEW d \in Device,
         NetDevNotifier(event, d), last' = last,
         told[d] = "Link_Going_Down" => event = "NETDEV_DOWN"
  PROVE  /\ QueueInv' /\ queue' \in Seq(Task) /\ told' \in Told
         /\ \A e \in Device : e # d => told'[e] = told[e]
         /\ d \in Ethernet => told'[d] = TaskFor(event, d).handler
         /\ d \notin Ethernet => told'[d] = told[d]
<1>1. queue \in Seq(Task) /\ told \in Told /\ last \in Told
  BY DEF TypeOK, Told
<1>2. CASE d \notin Ethernet
  BY <1>1, <1>2 DEF NetDevNotifier, QueueInv
<1>3. CASE d \in Ethernet
  <2> DEFINE x == TaskFor(event, d)
  <2>1. /\ x \in Task /\ x.dev = d
        /\ event = "NETDEV_DOWN" => x.handler = "Link_Down"
    BY TaskForType
  <2>2. queue' = Append(queue, x) /\ told' = [told EXCEPT ![d] = x.handler]
    BY <1>3 DEF NetDevNotifier
  <2> HIDE DEF x
  <2>3. x.handler \in Indication
    BY <2>1 DEF Task
  <2>4. /\ queue' \in Seq(Task) /\ told' \in Told /\ told'[d] = x.handler
        /\ \A e \in Device : e # d => told'[e] = told[e]
    BY <1>1, <2>1, <2>2, <2>3 DEF Told
  <2>5. QueueTold(Append(queue, x), last, [told EXCEPT ![x.dev] = x.handler])
    BY <1>1, <2>1, AppendTold DEF QueueInv
  <2>6. QueuePaired(Append(queue, x), last)
    BY <1>1, <2>1, AppendPaired DEF QueueInv
  <2>7. QueueInv'
    BY <2>1, <2>2, <2>5, <2>6 DEF QueueInv
  <2> QED
    BY <1>3, <2>4, <2>7 DEF x
<1> QED
  BY <1>2, <1>3

-----------------------------------------------------------------------------
(* The inductive invariant                                                 *)

\* When DevMon registers its notifiers, nothing was told and nothing is queued
\* (dev_mon.c 150-200).
LEMMA InitIInv ==
  ASSUME Init
  PROVE  IInv
<1>1. queue = << >> /\ queue \in Seq(Task) /\ Len(queue) = 0 /\ last = told
  BY DEF Init
<1>2. TypeOK
  BY <1>1, EventAssumption DEF Init, TypeOK
<1>3. QueueTold(queue, last, told) /\ QueuePaired(queue, last)
  BY <1>1 DEF QueueTold, QueuePaired
<1>4. ClosingTold /\ StateTold
  BY DeviceAssumption DEF Init, ClosingTold, StateTold, ReportedUp
<1> QED
  BY <1>2, <1>3, <1>4 DEF IInv

\* register_netdevice_notifier tells of the devices that are up already.
LEMMA ReplayIInv ==
  ASSUME IInv, NEW d \in Device, Replay(d)
  PROVE  IInv'
<1> USE DeviceAssumption
<1>1. TypeOK /\ QueueInv /\ ClosingTold /\ StateTold
  BY DEF IInv, QueueInv
<1>2. /\ QueueInv' /\ queue' \in Seq(Task) /\ told' \in Told
      /\ \A e \in Device : e # d => told'[e] = told[e]
      /\ d \in up \cap Ethernet => told'[d] = "Link_Up"
      /\ d \notin up \cap Ethernet => told'[d] = told[d]
  <2>1. CASE d \in up
    <3>1. /\ "NETDEV_UP" \in Event /\ NetDevNotifier("NETDEV_UP", d) /\ last' = last
          /\ told[d] # "Link_Going_Down"
      BY <1>1, <2>1 DEF Replay, Event, ClosingTold
    <3> QED
      BY <1>1, <2>1, <3>1, Notified, TaskForType
  <2>2. CASE d \notin up
    BY <1>1, <2>2 DEF Replay, QueueInv, TypeOK, Told
  <2> QED
    BY <2>1, <2>2
<1>3. TypeOK'
  BY <1>1, <1>2 DEF Replay, TypeOK, Told
<1>4. ClosingTold'
  BY <1>1, <1>2 DEF Replay, ClosingTold
<1>5. StateTold'
  BY <1>1, <1>2 DEF Replay, StateTold, ReportedUp, TypeOK
<1> QED
  BY <1>2, <1>3, <1>4, <1>5 DEF IInv, QueueInv

\* A device is opened: NETDEV_UP, a Link_Up task (dev_mon.c 90-92).
LEMMA OpenIInv ==
  ASSUME IInv, NEW d \in Device, Open(d)
  PROVE  IInv'
<1> USE DeviceAssumption
<1>1. TypeOK /\ QueueInv /\ ClosingTold /\ StateTold
  BY DEF IInv, QueueInv
<1>2. /\ "NETDEV_UP" \in Event /\ NetDevNotifier("NETDEV_UP", d) /\ last' = last
      /\ told[d] # "Link_Going_Down"
  BY <1>1 DEF Open, Unlocked, Event, ClosingTold
<1>3. /\ QueueInv' /\ queue' \in Seq(Task) /\ told' \in Told
      /\ \A e \in Device : e # d => told'[e] = told[e]
      /\ d \in Ethernet => told'[d] = "Link_Up"
      /\ d \notin Ethernet => told'[d] = told[d]
  BY <1>1, <1>2, Notified, TaskForType
<1>4. TypeOK'
  BY <1>1, <1>3, EventAssumption DEF Open, Unlocked, Happens, TypeOK, Told
<1>5. ClosingTold'
  BY <1>1, <1>3 DEF Open, Unlocked, ClosingTold
<1>6. StateTold'
  BY <1>1, <1>3 DEF Open, StateTold, ReportedUp, TypeOK
<1> QED
  BY <1>3, <1>4, <1>5, <1>6 DEF IInv, QueueInv

\* A device is about to close: NETDEV_GOING_DOWN, and its Link_Going_Down task
\* (dev_mon.c 84-86).
LEMMA GoingDownIInv ==
  ASSUME IInv, NEW d \in Device, GoingDown(d)
  PROVE  IInv'
<1> USE DeviceAssumption
<1>1. TypeOK /\ QueueInv /\ ClosingTold /\ StateTold
  BY DEF IInv, QueueInv
<1>2. /\ "NETDEV_GOING_DOWN" \in Event /\ NetDevNotifier("NETDEV_GOING_DOWN", d)
      /\ last' = last /\ told[d] # "Link_Going_Down"
  BY <1>1 DEF GoingDown, Unlocked, Event, ClosingTold
<1>3. /\ QueueInv' /\ queue' \in Seq(Task) /\ told' \in Told
      /\ \A e \in Device : e # d => told'[e] = told[e]
      /\ d \in Ethernet => told'[d] = "Link_Going_Down"
      /\ d \notin Ethernet => told'[d] = told[d]
  BY <1>1, <1>2, Notified, TaskForType
<1>4. TypeOK'
  BY <1>1, <1>3, EventAssumption DEF GoingDown, Unlocked, Happens, TypeOK, Told
<1>5. ClosingTold'
  BY <1>1, <1>3 DEF GoingDown, Unlocked, ClosingTold
<1>6. StateTold'
  BY <1>1, <1>3 DEF GoingDown, Unlocked, StateTold, ReportedUp, TypeOK
<1> QED
  BY <1>3, <1>4, <1>5, <1>6 DEF IInv, QueueInv

\* A device has closed: NETDEV_DOWN, its Link_Down task (dev_mon.c 87-89).
LEMMA CloseIInv ==
  ASSUME IInv, NEW d \in Device, Close(d)
  PROVE  IInv'
<1> USE DeviceAssumption
<1>1. TypeOK /\ QueueInv /\ ClosingTold /\ StateTold
  BY DEF IInv, QueueInv
<1>2. "NETDEV_DOWN" \in Event /\ NetDevNotifier("NETDEV_DOWN", d) /\ last' = last
  BY DEF Close, Event
<1>3. /\ QueueInv' /\ queue' \in Seq(Task) /\ told' \in Told
      /\ \A e \in Device : e # d => told'[e] = told[e]
      /\ d \in Ethernet => told'[d] = "Link_Down"
      /\ d \notin Ethernet => told'[d] = told[d]
  BY <1>1, <1>2, Notified, TaskForType
<1>4. closing = {d}
  BY <1>1 DEF Close, TypeOK
<1>5. TypeOK'
  BY <1>1, <1>3 DEF Close, TypeOK, Told
<1>6. StateTold'
  BY <1>1, <1>3, <1>4 DEF Close, StateTold, ReportedUp, TypeOK
<1>7. ClosingTold'
  BY <1>1, <1>3, <1>4 DEF Close, ClosingTold
<1> QED
  BY <1>3, <1>5, <1>6, <1>7 DEF IInv, QueueInv

\* The kernel tells of a change of carrier: NETDEV_CHANGE (dev_mon.c 95-103).
LEMMA LinkWatchIInv ==
  ASSUME IInv, NEW d \in Device, LinkWatch(d)
  PROVE  IInv'
<1> USE DeviceAssumption
<1>1. TypeOK /\ QueueInv /\ ClosingTold /\ StateTold
  BY DEF IInv, QueueInv
<1>2. /\ QueueInv' /\ queue' \in Seq(Task) /\ told' \in Told
      /\ \A e \in Device : e # d => told'[e] = told[e]
      /\ d \in up \cap Ethernet =>
           told'[d] = IF d \in carrier THEN "Link_Up" ELSE "Link_Down"
      /\ d \notin up \cap Ethernet => told'[d] = told[d]
  <2>1. CASE d \in up
    <3>1. /\ "NETDEV_CHANGE" \in Event /\ NetDevNotifier("NETDEV_CHANGE", d)
          /\ last' = last /\ told[d] # "Link_Going_Down"
      BY <1>1, <2>1 DEF LinkWatch, Unlocked, Event, ClosingTold
    <3> QED
      BY <1>1, <2>1, <3>1, Notified, TaskForType
  <2>2. CASE d \notin up
    BY <1>1, <2>2 DEF LinkWatch, QueueInv, TypeOK, Told
  <2> QED
    BY <2>1, <2>2
<1>3. TypeOK'
  BY <1>1, <1>2 DEF LinkWatch, TypeOK, Told
<1>4. ClosingTold'
  BY <1>1, <1>2 DEF LinkWatch, ClosingTold
<1>5. StateTold'
  BY <1>1, <1>2 DEF LinkWatch, Unlocked, StateTold, ReportedUp, TypeOK
<1> QED
  BY <1>2, <1>3, <1>4, <1>5 DEF IInv, QueueInv

\* What happens to a device without a notification to the module.
LEMMA UnnotifiedIInv ==
  ASSUME IInv, NEW d \in Device, CarrierChange(d) \/ Register(d) \/ Unregister(d)
  PROVE  IInv'
<1> USE DeviceAssumption, EventAssumption
<1>1. TypeOK /\ QueueInv /\ ClosingTold /\ StateTold
  BY DEF IInv, QueueInv
<1>2. UNCHANGED <<queue, last, told, up, replay, closing>>
  BY DEF CarrierChange, Register, Unregister
<1>3. QueueInv' /\ ClosingTold'
  BY <1>1, <1>2 DEF QueueInv, ClosingTold
<1>4. CASE CarrierChange(d)
  <2>1. TypeOK'
    BY <1>1, <1>4 DEF CarrierChange, Happens, TypeOK
  <2>2. StateTold'
    BY <1>1, <1>4 DEF CarrierChange, StateTold, ReportedUp
  <2> QED
    BY <1>3, <2>1, <2>2 DEF IInv, QueueInv
<1>5. CASE Register(d)
  <2>1. TypeOK'
    BY <1>1, <1>5 DEF Register, Unlocked, Happens, TypeOK
  <2>2. StateTold'
    BY <1>1, <1>5 DEF Register, StateTold, ReportedUp
  <2> QED
    BY <1>3, <2>1, <2>2 DEF IInv, QueueInv
<1>6. CASE Unregister(d)
  <2>1. TypeOK'
    BY <1>1, <1>6 DEF Unregister, Unlocked, Happens, TypeOK
  <2>2. StateTold'
    BY <1>1, <1>6 DEF Unregister, StateTold, ReportedUp
  <2> QED
    BY <1>3, <2>1, <2>2 DEF IInv, QueueInv
<1> QED
  BY <1>4, <1>5, <1>6

\* The executor gives the indication at the head of the queue
\* (mih_link_sap.c 39-89).
LEMMA IndicateIInv ==
  ASSUME IInv, Indicate
  PROVE  /\ IInv'
         /\ \A d \in Device : last[d] = "Link_Going_Down" /\ last'[d] # last[d]
                             => last'[d] = "Link_Down"
<1>1. TypeOK /\ QueueInv /\ ClosingTold /\ StateTold
  BY DEF IInv, QueueInv
<1>2. queue \in Seq(Task) /\ queue # << >> /\ last \in Told /\ told \in Told
  BY <1>1 DEF TypeOK, Told, Indicate
<1>3. /\ QueueTold(Tail(queue), [last EXCEPT ![Head(queue).dev] = Head(queue).handler], told)
      /\ QueuePaired(Tail(queue), [last EXCEPT ![Head(queue).dev] = Head(queue).handler])
      /\ last[Head(queue).dev] = "Link_Going_Down" => Head(queue).handler = "Link_Down"
  BY <1>1, <1>2, TailQueue DEF QueueInv
<1>4. QueueInv'
  BY <1>3 DEF Indicate, QueueInv
<1>5. Head(queue) \in Task /\ Tail(queue) \in Seq(Task)
  BY <1>2
<1>6. Head(queue).dev \in Device /\ Head(queue).handler \in Indication
  BY <1>5 DEF Task
<1>7. TypeOK'
  BY <1>1, <1>2, <1>5, <1>6 DEF Indicate, TypeOK, Told
<1>8. ClosingTold' /\ StateTold'
  BY <1>1 DEF Indicate, ClosingTold, StateTold, ReportedUp
<1>9. \A d \in Device : last[d] = "Link_Going_Down" /\ last'[d] # last[d]
                       => last'[d] = "Link_Down"
  BY <1>2, <1>3, <1>6 DEF Indicate, Told
<1> QED
  BY <1>4, <1>7, <1>8, <1>9 DEF IInv, QueueInv

\* Every step of the kernel, the notifier and the executor preserves the invariant.
LEMMA NextIInv ==
  ASSUME IInv, [Next]_vars
  PROVE  /\ IInv'
         /\ \A d \in Device : last[d] = "Link_Going_Down" /\ last'[d] # last[d]
                             => last'[d] = "Link_Down"
<1>1. ASSUME NEW d \in Device,
             Replay(d) \/ Open(d) \/ GoingDown(d) \/ Close(d) \/ CarrierChange(d)
               \/ LinkWatch(d) \/ Register(d) \/ Unregister(d)
      PROVE  IInv' /\ last' = last
  <2>1. IInv'
    BY <1>1, ReplayIInv, OpenIInv, GoingDownIInv, CloseIInv, LinkWatchIInv, UnnotifiedIInv
  <2>2. last' = last
    BY <1>1 DEF Replay, Open, GoingDown, Close, CarrierChange, LinkWatch, Register, Unregister
  <2> QED
    BY <2>1, <2>2
<1>2. CASE Indicate
  BY <1>2, IndicateIInv
<1>3. CASE UNCHANGED vars
  BY <1>3 DEF vars, IInv, TypeOK, ClosingTold, StateTold, ReportedUp
<1> QED
  BY <1>1, <1>2, <1>3 DEF Next

\* The inductive invariant holds in every state.
LEMMA IInvHolds == Spec => []IInv
<1>1. Init => IInv
  BY InitIInv
<1>2. IInv /\ [Next]_vars => IInv'
  BY NextIInv
<1> QED
  BY <1>1, <1>2, PTL DEF Spec

-----------------------------------------------------------------------------

\* TypeOK: the tasks of the queue and the state of the devices keep their types.
THEOREM TypeCorrect == Spec => []TypeOK
<1>1. IInv => TypeOK
  BY DEF IInv
<1> QED
  BY <1>1, IInvHolds, PTL

\* SettledAgrees for any devices: once nothing is under way, the last indication
\* that NetDevNotifier caused is Link_Up exactly for a device that is up and has a
\* carrier, or that was set up without one that has not changed since
\* (dev_mon.c 77-103).
THEOREM SettledHolds == Spec => []SettledAgrees
<1>1. ASSUME IInv
      PROVE  SettledAgrees
  <2> SUFFICES ASSUME NEW d \in Device, Settled(d)
               PROVE  /\ last[d] = "Link_Up" <=> ReportedUp(d)
                      /\ last[d] # "Link_Going_Down"
    BY DEF SettledAgrees
  <2>1. None(queue, d, 1, Len(queue))
    BY DEF Settled, None
  <2>2. last[d] = told[d]
    BY <1>1, <2>1 DEF IInv, QueueTold
  <2> QED
    BY <1>1, <2>2 DEF IInv, StateTold, ReportedUp, ClosingTold, Settled
<1> QED
  BY <1>1, IInvHolds, PTL

\* GoingDownThenDown for any devices: after a Link_Going_Down, the next indication
\* of the device is its Link_Down (dev_mon.c 84-89).
THEOREM GoingDownHolds == Spec => GoingDownThenDown
<1>1. IInv /\ [Next]_vars =>
        [\A d \in Device :
           last[d] = "Link_Going_Down" /\ last'[d] # last[d] => last'[d] = "Link_Down"]_vars
  BY NextIInv
<1> QED
  BY <1>1, IInvHolds, PTL DEF Spec, GoingDownThenDown
=============================================================================
