------------------------------- MODULE Selector -------------------------------
(***************************************************************************)
(* The life of the application on its UI thread: the loops of main,        *)
(* browse_for_device, wait_for_preferred_console and show_error_briefly    *)
(* (src/webos_main.c), on the registry of servers and the two discovery    *)
(* sockets.                                                                *)
(*                                                                         *)
(* A streaming session is one step that ends with some result; what it     *)
(* does is SysdvrSession's and FrametapSession's.  A turn of a UI loop     *)
(* takes no time: datagrams arrive and entries age while the loop sleeps,  *)
(* while the error screen is shown, and during a session.  Rendering, and  *)
(* the delays around it, are left out.                                     *)
(***************************************************************************)
EXTENDS SessionRegistry

CONSTANTS
    QueueLimit,     \* datagrams the kernel keeps for one socket
    Announcements   \* what the servers announce, a subset of Devices

Junk == [source |-> "junk"]     \* a datagram that does not parse, or a poll
                                \* that fails: both end a drain

ASSUME SelectorAssumption ==
    QueueLimit \in Nat \ {0} /\ Announcements \subseteq Devices

VARIABLES
    loc,            \* where the UI thread is
    action,         \* the key this turn found
    g_signal_stop,
    manager,        \* the registry
    target,         \* the device of the session, target or reconnect_target
    reconnecting,   \* the inner loop of main: a session after a wait
    queue,          \* the datagrams waiting on each discovery socket
    chosen          \* history: the device the user pressed OK on

vars == <<loc, action, g_signal_stop, manager, target, reconnecting, queue,
          chosen>>

Keys == {"none", "up", "down", "ok", "back"}

(* Where the UI thread is when time passes. *)
Sleeping == {"browse", "wait", "session", "error"}

Locs == Sleeping \cup {"browse_sysdvr", "browse_frametap", "browse_act",
                       "wait_sysdvr", "wait_frametap", "wait_prune",
                       "refresh", "exit"}

(* A host given at launch becomes a manual entry. *)
Init ==
    /\ loc = "browse" /\ action = "none" /\ g_signal_stop = FALSE
    /\ manager \in {Empty} \cup {AddManual(Empty, h) : h \in Hosts}
    /\ target = NoDevice /\ chosen = NoDevice
    /\ reconnecting = FALSE
    /\ queue = [s \in Sources |-> <<>>]

-----------------------------------------------------------------------------
(* The head of a turn: the stop flag, then the keys.  Every loop of main   *)
(* and of the functions it calls ends when the flag is set.                *)

Stop(here) ==
    /\ loc = here /\ g_signal_stop
    /\ loc' = "exit"
    /\ UNCHANGED <<action, g_signal_stop, manager, target, reconnecting,
                   queue, chosen>>

(* sdl_shell_poll has seen SDL_QUIT. *)
Quit(here) ==
    /\ loc = here /\ ~g_signal_stop
    /\ g_signal_stop' = TRUE
    /\ loc' = "exit"
    /\ UNCHANGED <<action, manager, target, reconnecting, queue,
                   chosen>>

(* What the drain of one socket does with the datagram it takes. *)
Take(s) == queue' = [queue EXCEPT ![s] = Tail(@)]

Drained(s, here, next) ==
    /\ loc = here
    /\ \/ queue[s] = <<>> /\ UNCHANGED queue
       \/ queue[s] # <<>> /\ Head(queue[s]) = Junk /\ Take(s)
    /\ loc' = next
    /\ UNCHANGED <<action, g_signal_stop, manager, target, reconnecting,
                   chosen>>

-----------------------------------------------------------------------------
(* browse_for_device                                                       *)

BrowsePoll(key) ==
    /\ loc = "browse" /\ ~g_signal_stop
    /\ action' = key
    /\ loc' = "browse_sysdvr"
    /\ UNCHANGED <<g_signal_stop, manager, target, reconnecting, queue, chosen>>

(* poll_discovery_once, one datagram. *)
BrowseSeen(s, here) ==
    /\ loc = here
    /\ queue[s] # <<>> /\ Head(queue[s]) # Junk
    /\ Take(s)
    /\ manager' = Seen(manager, Head(queue[s]))
    /\ UNCHANGED <<loc, action, g_signal_stop, target, reconnecting,
                   chosen>>

Turned(m) == CASE action = "up"   -> Up(m)
               [] action = "down" -> Down(m)
               [] OTHER           -> m

(* The rest of a turn: prune first, then the key. *)
BrowseAct ==
    /\ loc = "browse_act" /\ action # "back"
    /\ ~(action = "ok" /\ Pruned(manager).devices # <<>>)
    /\ manager' = Turned(Pruned(manager))
    /\ action' = "none"
    /\ loc' = "browse"
    /\ UNCHANGED <<g_signal_stop, target, reconnecting, queue,
                   chosen>>

(* The device is remembered, and main starts a session with it.  main's    *)
(* test that there is a selected device never fails (SelectionInRange).    *)
BrowseOk ==
    /\ loc = "browse_act" /\ action = "ok"
    /\ Pruned(manager).devices # <<>>
    /\ manager' = Remembered(Pruned(manager))
    /\ target' = Selected(Pruned(manager))
    /\ chosen' = target'
    /\ reconnecting' = FALSE
    /\ action' = "none"
    /\ loc' = "session"
    /\ UNCHANGED <<g_signal_stop, queue>>

(* Leaving the selector leaves the application. *)
BrowseBack ==
    /\ loc = "browse_act" /\ action = "back"
    /\ manager' = Pruned(manager)
    /\ action' = "none"
    /\ g_signal_stop' = TRUE
    /\ loc' = "exit"
    /\ UNCHANGED <<target, reconnecting, queue, chosen>>

-----------------------------------------------------------------------------
(* The end of a session, in the outer and in the inner loop of main.       *)

SessionStopped ==
    /\ loc = "session" /\ g_signal_stop
    /\ loc' = "exit"
    /\ UNCHANGED <<action, g_signal_stop, manager, target, reconnecting,
                   queue, chosen>>

AfterSession == [USER_BACK      |-> "browse", ERROR      |-> "error",
                 TRANSPORT_LOST |-> "wait",   REMOTE_END |-> "wait"]

SessionEnds(result) ==
    /\ loc = "session" /\ ~g_signal_stop
    /\ loc' = AfterSession[result]
    /\ UNCHANGED <<action, g_signal_stop, manager, target, reconnecting,
                   queue, chosen>>

(* show_error_briefly: after 1.6 s or a key, the outer loop browses and    *)
(* the inner loop waits again.                                             *)
ErrorShown ==
    /\ loc = "error" /\ ~g_signal_stop
    /\ loc' = IF reconnecting THEN "wait" ELSE "browse"
    /\ UNCHANGED <<action, g_signal_stop, manager, target, reconnecting,
                   queue, chosen>>

-----------------------------------------------------------------------------
(* wait_for_preferred_console                                              *)

WaitPoll_Deaf ==    \* mutant: the loop does not look at the stop flag
    /\ loc = "wait"
    /\ loc' = "wait_sysdvr"
    /\ UNCHANGED <<action, g_signal_stop, manager, target, reconnecting, queue,
                   chosen>>

WaitPoll ==
    /\ loc = "wait" /\ ~g_signal_stop
    /\ loc' = "wait_sysdvr"
    /\ UNCHANGED <<action, g_signal_stop, manager, target, reconnecting,
                   queue, chosen>>

WaitBack ==
    /\ loc = "wait" /\ ~g_signal_stop
    /\ loc' = "browse"
    /\ UNCHANGED <<action, g_signal_stop, manager, target, reconnecting,
                   queue, chosen>>

Returned_Listed(m, d) ==    \* mutant: only a console the registry has room for
    MatchesPreferred(m, d) /\ Matching(m, d) # {}
Returned(m, d) == MatchesPreferred(m, d)

WaitSeen(s, here) ==
    /\ loc = here
    /\ queue[s] # <<>> /\ Head(queue[s]) # Junk
    /\ Take(s)
    /\ LET found == Head(queue[s]) IN
       /\ manager' = Seen(manager, found)
       /\ \/ /\ Returned(manager', found)
             /\ target' = found
             /\ loc' = IF reconnecting THEN "session" ELSE "refresh"
          \/ /\ ~Returned(manager', found)
             /\ UNCHANGED <<target, loc>>
    /\ UNCHANGED <<action, g_signal_stop, reconnecting, chosen>>

WaitPrune_Believes ==   \* mutant: an entry of the list counts as an answer
    /\ loc = "wait_prune"
    /\ manager' = Pruned(manager)
    /\ \/ /\ manager.preferred # NoDevice
          /\ Matching(manager', manager.preferred) # {}
          /\ target' = manager.preferred
          /\ loc' = IF reconnecting THEN "session" ELSE "refresh"
       \/ /\ Matching(manager', manager.preferred) = {}
          /\ loc' = "wait"
          /\ UNCHANGED target
    /\ UNCHANGED <<action, g_signal_stop, reconnecting, queue, chosen>>

WaitPrune ==
    /\ loc = "wait_prune"
    /\ manager' = Pruned(manager)
    /\ loc' = "wait"
    /\ UNCHANGED <<action, g_signal_stop, target, reconnecting, queue, chosen>>

(* After the first wait main enters the console once more.  Its comment    *)
(* goes on to selecting it; the code does not.                             *)
Refresh ==
    /\ loc = "refresh"
    /\ manager' = Seen(manager, target)
    /\ reconnecting' = TRUE
    /\ loc' = IF g_signal_stop THEN "exit" ELSE "session"
    /\ UNCHANGED <<action, g_signal_stop, target, queue, chosen>>

-----------------------------------------------------------------------------
(* The servers, the network, the clock and the user.                       *)

(* A datagram arrives at a socket that has room, or is lost. *)
Arrive(s, d) ==
    /\ loc \in Sleeping
    /\ Len(queue[s]) < QueueLimit
    /\ queue' = [queue EXCEPT ![s] = Append(@, d)]
    /\ UNCHANGED <<loc, action, g_signal_stop, manager, target, reconnecting,
                   chosen>>

Announce(d) == Arrive(d.source, d)

Tick ==
    /\ loc \in Sleeping
    /\ manager' = Aged(manager)
    /\ UNCHANGED <<loc, action, g_signal_stop, target, reconnecting,
                   queue, chosen>>

Signal ==
    /\ loc # "exit" /\ ~g_signal_stop
    /\ g_signal_stop' = TRUE
    /\ UNCHANGED <<loc, action, manager, target, reconnecting, queue, chosen>>

Turn ==
    \/ \E here \in {"browse", "wait", "error"} : Stop(here)
    \/ \E key \in Keys : BrowsePoll(key)
    \/ BrowseSeen("sysdvr", "browse_sysdvr")
    \/ Drained("sysdvr", "browse_sysdvr", "browse_frametap")
    \/ BrowseSeen("frametap", "browse_frametap")
    \/ Drained("frametap", "browse_frametap", "browse_act")
    \/ BrowseAct \/ BrowseOk \/ BrowseBack
    \/ ErrorShown
    \/ WaitPoll \/ WaitBack
    \/ WaitSeen("sysdvr", "wait_sysdvr")
    \/ Drained("sysdvr", "wait_sysdvr", "wait_frametap")
    \/ WaitSeen("frametap", "wait_frametap")
    \/ Drained("frametap", "wait_frametap", "wait_prune")
    \/ WaitPrune \/ Refresh

Loop == Turn \/ SessionStopped

Environment ==
    \/ \E d \in Announcements : Announce(d)
    \/ \E s \in Sources : Arrive(s, Junk)
    \/ \E result \in DOMAIN AfterSession : SessionEnds(result)
    \/ \E here \in {"browse", "wait", "error"} : Quit(here)
    \/ Tick \/ Signal

Terminated == loc = "exit" /\ UNCHANGED vars

Next == Loop \/ Environment \/ Terminated

Spec == Init /\ [][Next]_vars

-----------------------------------------------------------------------------
(* Fairness.  The UI thread keeps running, outside its sessions.  A        *)
(* session that nobody stops may last for ever.  A property names what     *)
(* else it needs: that a session ends after a stop request, which the      *)
(* session modules show with the exceptions they name (a console that      *)
(* holds the priming of a SysDVR stream, StopEnds); that time passes while *)
(* the loops sleep; or that the preferred server keeps announcing itself,  *)
(* that is, again and again one of its datagrams finds room.               *)

FairSpec == Spec /\ WF_vars(Turn)

SessionsStop == WF_vars(SessionStopped)

TimePasses == SF_vars(Tick)

AnnouncePreferred ==
    \E d \in Announcements : MatchesPreferred(manager, d) /\ Announce(d)

PreferredReturns == SF_vars(AnnouncePreferred)

-----------------------------------------------------------------------------
(* Properties.                                                             *)

Fresh(e) == e.manual \/ e.age <= StaleAge

(* Every variable keeps its type; the registry never holds more entries   *)
(* than its array (session_manager.c writes devices[count++]).             *)
TypeOK ==
    /\ loc \in Locs /\ action \in Keys /\ g_signal_stop \in BOOLEAN
    /\ manager \in Registries /\ Len(manager.devices) <= MaxDevices
    /\ target \in Devices \cup {NoDevice}
    /\ chosen \in Devices \cup {NoDevice}
    /\ reconnecting \in BOOLEAN
    /\ queue \in [Sources -> Seq(Devices \cup {Junk})]
    /\ \A s \in Sources : Len(queue[s]) <= QueueLimit

(* The selection always names an entry of a registry that is not empty, so *)
(* OK always finds a device, and no entry past the last is ever read.      *)
SelectionInRange == SelectionNamesEntry(manager)

(* Nothing but a key, or the silence of the selected server, moves the     *)
(* selection to another server: neither an announcement nor the expiry of  *)
(* other entries does.                                                     *)
SelectionStays ==
    [][HasSelection(manager) /\ action \notin {"up", "down"}
         /\ Fresh(manager.devices[manager.selected + 1])
       => /\ HasSelection(manager')
          /\ SameDevice(Selected(manager), Selected(manager'))]_vars

(* ARCHITECTURE.md:10: the backend is part of the key, so an announcement  *)
(* of one backend leaves every entry of the other as it was.               *)
BackendsApart ==
    [][\A s \in Sources : Len(queue'[s]) < Len(queue[s]) =>
         \A i \in DOMAIN manager.devices :
            manager.devices[i].info.source # s =>
                manager'.devices[i] = manager.devices[i]]_vars

(* Automatic reconnection never takes the user to another backend, nor to  *)
(* a console that names another serial, whatever addresses the consoles    *)
(* have meanwhile taken over from one another.                             *)
ReconnectsToChosen ==
    loc = "session" =>
        /\ target.source = chosen.source
        /\ target.serial # NoSerial /\ chosen.serial # NoSerial
              => target.serial = chosen.serial

(* webos_main.c:1295 says that after the first wait the matching item is   *)
(* selected, so that the selector is coherent when the user comes back.    *)
SelectionFollowsReconnect ==
    [][loc = "refresh" /\ loc' = "session" /\ Matching(manager', target) # {}
         => SameDevice(Selected(manager'), target)]_vars

(* Two entries of one server, which a change of address can leave behind,  *)
(* do not stay: one of them is merged or expires, unless a session runs.   *)
Duplicated ==
    \E i, j \in DOMAIN manager.devices :
        i # j /\ SameDevice(manager.devices[i].info, manager.devices[j].info)
DuplicatesExpire ==
    TimePasses =>
        (Duplicated ~> (~Duplicated \/ loc \in {"session", "exit"}))

(* A stop request ends the application from any screen, and from a session *)
(* if the session ends.                                                    *)
StopExits == SessionsStop => (g_signal_stop ~> loc = "exit")

(* Reconnection is an answer to an announcement: what waited on a socket   *)
(* through a long session is believed once, and what the list remembers is *)
(* not believed at all.  So a console that is reconnected to again and     *)
(* again goes on announcing itself, unless the user goes on choosing.      *)
Reconnects ==
    /\ loc \in {"wait_sysdvr", "wait_frametap", "wait_prune"}
    /\ loc' \in {"session", "refresh"}
ReconnectsAreAnswers ==
    []<><<Reconnects>>_vars
        => []<><<AnnouncePreferred \/ chosen' # chosen>>_vars

(* While it waits for the console it has lost, the application notices a   *)
(* console that keeps announcing itself: also when the registry is full,   *)
(* when other datagrams do not parse, and under a new address.             *)
Waiting == loc \in {"wait", "wait_sysdvr", "wait_frametap", "wait_prune"}
WaitEnds == PreferredReturns => (Waiting ~> ~Waiting)
=============================================================================
