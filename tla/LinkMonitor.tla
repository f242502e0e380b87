----------------------------- MODULE LinkMonitor -----------------------------
(***************************************************************************)
(* The device monitor (dev_mon.c) between the network devices of the       *)
(* kernel and the link indications (mih_link_sap.c): what NetDevNotifier   *)
(* queues for the events that a device goes through, and what the executor *)
(* of mihf_queue has indicated when it gets to it.  MihModule has the life *)
(* cycle of the notifier and of the executor; here both are running, and   *)
(* mihf_queue is the serial executor that TaskQueue implements.            *)
(*                                                                         *)
(* The kernel calls the notifier with its rtnl lock held.  The carrier of  *)
(* a device changes at any time, without the lock; the kernel's link watch *)
(* notifies the change later, under the lock, if the device is up by then. *)
(***************************************************************************)
EXTENDS Integers, Sequences

CONSTANTS
  Device,     \* the network devices
  Ethernet,   \* those with dev->type ARPHRD_ETHER
  Wireless,   \* those with dev->ieee80211_ptr
  MaxEvents   \* bound on what happens to the devices

ASSUME DeviceAssumption == Ethernet \subseteq Device /\ Wireless \subseteq Device
ASSUME EventAssumption == MaxEvents \in Nat

VARIABLES
  present,    \* the devices that are registered
  up,         \* those that are up (IFF_UP)
  carrier,    \* those with a carrier
  linkwatch,  \* those whose change of carrier is still to be notified
  replay,     \* those that register_netdevice_notifier has still to replay
  closing,    \* those that are being closed, one at most
  queue,      \* mihf_queue, with the parameters of the indications
  last,       \* the last indication that was given for each device
  told,       \* history: the last one that was queued for it
  changed,    \* history: those with a NETDEV_CHANGE since they were set up
  events      \* history: how much has happened to the devices

vars == <<present, up, carrier, linkwatch, replay, closing, queue, last, told, changed,
          events>>

-----------------------------------------------------------------------------
(* DevLinkUp, DevLinkDown, DevLinkGoingDown and NetDevNotifier             *)

ETHERNET == 15
WIRELESS_IEEE_802_11 == 19

Indication == {"Link_Up", "Link_Down", "Link_Going_Down"}

\* A task: the indication to be given, and the link identifier, whose address
\* is that of the device.
Task == [handler : Indication, dev : Device,
         link_type : {ETHERNET, WIRELESS_IEEE_802_11}]

DevLinkUp(d) ==
  [handler |-> "Link_Up", dev |-> d,
   link_type |-> IF d \in Wireless THEN WIRELESS_IEEE_802_11 ELSE ETHERNET]

\* Mutant: the link type is what kmalloc left there.
DevLinkDownUntyped(d) == [handler |-> "Link_Down", dev |-> d, link_type |-> 0]

DevLinkDown(d) == [handler |-> "Link_Down", dev |-> d, link_type |-> ETHERNET]

DevLinkGoingDown(d) ==
  [handler |-> "Link_Going_Down", dev |-> d, link_type |-> ETHERNET]

\* Mutant: the test of the carrier is reversed.
TaskForReversed(event, d) ==
  CASE event = "NETDEV_GOING_DOWN" -> DevLinkGoingDown(d)
    [] event = "NETDEV_DOWN" -> DevLinkDown(d)
    [] event = "NETDEV_UP" -> DevLinkUp(d)
    [] event = "NETDEV_CHANGE" ->
         IF d \in carrier THEN DevLinkDown(d) ELSE DevLinkUp(d)

\* Mutant: the first two labels are swapped.
TaskForSwapped(event, d) ==
  CASE event = "NETDEV_DOWN" -> DevLinkGoingDown(d)
    [] event = "NETDEV_GOING_DOWN" -> DevLinkDown(d)
    [] event = "NETDEV_UP" -> DevLinkUp(d)
    [] event = "NETDEV_CHANGE" ->
         IF d \in carrier THEN DevLinkUp(d) ELSE DevLinkDown(d)

\* The switch of NetDevNotifier.
TaskFor(event, d) ==
  CASE event = "NETDEV_GOING_DOWN" -> DevLinkGoingDown(d)
    [] event = "NETDEV_DOWN" -> DevLinkDown(d)
    [] event = "NETDEV_UP" -> DevLinkUp(d)
    [] event = "NETDEV_CHANGE" ->
         IF d \in carrier THEN DevLinkUp(d) ELSE DevLinkDown(d)

\* Other events (NETDEV_REGISTER, NETDEV_PRE_UP, NETDEV_CHANGEADDR) and other
\* devices are ignored.
NetDevNotifier(event, d) ==
  IF d \in Ethernet
    THEN /\ queue' = Append(queue, TaskFor(event, d))
         /\ told' = [told EXCEPT ![d] = TaskFor(event, d).handler]
    ELSE UNCHANGED <<queue, told>>

-----------------------------------------------------------------------------
(* The kernel                                                              *)

\* The module is loaded while the devices are in any state.
Init ==
  /\ present \in SUBSET Device
  /\ up \in SUBSET present
  /\ carrier \in SUBSET Device
  /\ linkwatch = {}
  /\ replay = present
  /\ closing = {}
  /\ queue = << >>
  /\ last = [d \in Device |-> "none"]
  /\ told = [d \in Device |-> "none"]
  /\ changed = {}
  /\ events = 0

\* Nobody holds the rtnl lock.
Unlocked == replay = {} /\ closing = {}

Happens == events < MaxEvents /\ events' = events + 1

\* register_netdevice_notifier replays NETDEV_REGISTER, and NETDEV_UP for the
\* devices that are up.
Replay(d) ==
  /\ d \in replay
  /\ replay' = replay \ {d}
  /\ IF d \in up THEN NetDevNotifier("NETDEV_UP", d) ELSE UNCHANGED <<queue, told>>
  /\ UNCHANGED <<present, up, carrier, linkwatch, closing, last, changed, events>>

\* A device is set up, whether it has a carrier or not.
Open(d) ==
  /\ Unlocked /\ Happens
  /\ d \in present \ up
  /\ up' = up \cup {d}
  /\ NetDevNotifier("NETDEV_UP", d)
  /\ changed' = changed \ {d}
  /\ UNCHANGED <<present, carrier, linkwatch, replay, closing, last>>

\* A device is set down: two notifications under one lock.
GoingDown(d) ==
  /\ Unlocked /\ Happens
  /\ d \in up
  /\ closing' = {d}
  /\ NetDevNotifier("NETDEV_GOING_DOWN", d)
  /\ UNCHANGED <<present, up, carrier, linkwatch, replay, last, changed>>

Close(d) ==
  /\ d \in closing
  /\ closing' = {}
  /\ up' = up \ {d}
  /\ NetDevNotifier("NETDEV_DOWN", d)
  /\ UNCHANGED <<present, carrier, linkwatch, replay, last, changed, events>>

\* The driver of a device turns the carrier on or off.
CarrierChange(d) ==
  /\ Happens
  /\ d \in present
  /\ carrier' = IF d \in carrier THEN carrier \ {d} ELSE carrier \cup {d}
  /\ linkwatch' = linkwatch \cup {d}
  /\ UNCHANGED <<present, up, replay, closing, queue, last, told, changed>>

\* The notification has the carrier of the moment, not that of the change.
LinkWatch(d) ==
  /\ Unlocked
  /\ d \in linkwatch
  /\ linkwatch' = linkwatch \ {d}
  /\ IF d \in up
       THEN NetDevNotifier("NETDEV_CHANGE", d) /\ changed' = changed \cup {d}
       ELSE UNCHANGED <<queue, told, changed>>
  /\ UNCHANGED <<present, up, carrier, replay, closing, last, events>>

Register(d) ==
  /\ Unlocked /\ Happens
  /\ d \notin present
  /\ present' = present \cup {d}
  /\ UNCHANGED <<up, carrier, linkwatch, replay, closing, queue, last, told, changed>>

\* A device is removed once it is down; its indications stay in the queue.
Unregister(d) ==
  /\ Unlocked /\ Happens
  /\ d \in present \ up
  /\ present' = present \ {d}
  /\ linkwatch' = linkwatch \ {d}
  /\ UNCHANGED <<up, carrier, replay, closing, queue, last, told, changed>>

-----------------------------------------------------------------------------
(* The indications                                                         *)

\* The executor of mihf_queue runs Link_Up_indication, Link_Down_indication or
\* Link_Going_Down_indication.
Indicate ==
  /\ queue # << >>
  /\ last' = [last EXCEPT ![Head(queue).dev] = Head(queue).handler]
  /\ queue' = Tail(queue)
  /\ UNCHANGED <<present, up, carrier, linkwatch, replay, closing, told, changed, events>>

Next ==
  \/ \E d \in Device :
       \/ Replay(d) \/ Open(d) \/ GoingDown(d) \/ Close(d) \/ CarrierChange(d)
       \/ LinkWatch(d) \/ Register(d) \/ Unregister(d)
  \/ Indicate

Spec == Init /\ [][Next]_vars

-----------------------------------------------------------------------------
(* Properties                                                              *)

TypeOK ==
  /\ present \subseteq Device /\ up \subseteq present /\ carrier \subseteq Device
  /\ linkwatch \subseteq present /\ replay \subseteq present
  /\ closing \subseteq up /\ \A d, e \in closing : d = e
  /\ queue \in Seq(Task)
  /\ last \in [Device -> Indication \cup {"none"}]
  /\ told \in [Device -> Indication \cup {"none"}]
  /\ changed \subseteq Device
  /\ events \in 0..MaxEvents

\* Nothing is under way for a device: all its indications were given.
Settled(d) ==
  /\ d \in Ethernet
  /\ d \notin replay \cup closing \cup linkwatch
  /\ \A i \in 1..Len(queue) : queue[i].dev # d

\* A device that is up is reported as up if it has a carrier.  It is also, for as
\* long as its carrier does not change, if it was set up without one: NETDEV_UP
\* does not look at the carrier (dev_mon.c 90-92), and no NETDEV_CHANGE comes.
ReportedUp(d) == d \in up /\ (d \in carrier \/ d \notin changed)

\* What the last indication tells of a link (dev_mon.c 77-103): although
\* NETDEV_CHANGE looks at a carrier that may have changed again, and the same
\* state may be reported twice, Link_Up is the last word on a device exactly when
\* the device is up with a carrier, or was set up without one that has not
\* changed since.  On any other device it is Link_Down or nothing was said.
SettledAgrees ==
  \A d \in Device :
    Settled(d) => /\ last[d] = "Link_Up" <=> ReportedUp(d)
                  /\ last[d] # "Link_Going_Down"

\* A Link_Going_Down is followed by the Link_Down of the same device, whatever
\* happens to the carrier between the two notifications (dev_mon.c 84-103).
GoingDownThenDown ==
  [][\A d \in Device :
       last[d] = "Link_Going_Down" /\ last'[d] # last[d] => last'[d] = "Link_Down"]_vars
=============================================================================
