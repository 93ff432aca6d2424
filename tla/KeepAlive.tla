------------------------------ MODULE KeepAlive ------------------------------
(***************************************************************************)
(* Time: the KEEP_ALIVE timer of a node (src/src/sending.c), the check     *)
(* timer of the server (src/src/server.c) and the two clocks they run on.  *)
(*                                                                         *)
(* Tick is one second.  What happens within a second happens in any order, *)
(* so that every phase of the two timers is covered.  The timers are       *)
(* monotonic (src/src/timer.c), last_keep_alive is time(NULL): the wall    *)
(* clock, which may be set forward or back while both run.                 *)
(***************************************************************************)
EXTENDS Integers

CONSTANTS
    KEEP_ALIVE_INTERVAL,      \* seconds between two KEEP_ALIVEs
    KEEP_ALIVE_CHECK_PERIOD,  \* KEEP_ALIVEs between two checks
    KEEP_ALIVE_GRACE,         \* checks before an error
    MaxDelay,   \* seconds from the timer's expiry to the read at the server,
                \* and from accept to the start of the node's timer
    MaxSkew,    \* seconds by which the wall clock is ever wrong
    MaxQuiet,   \* bound: seconds that a connection stays open without KEEP_ALIVE
    MaxMissed   \* bound: checks in a row that get no lock

Period == KEEP_ALIVE_INTERVAL * KEEP_ALIVE_CHECK_PERIOD
KEEP_ALIVE_PROD == KEEP_ALIVE_CHECK_PERIOD * KEEP_ALIVE_GRACE * KEEP_ALIVE_INTERVAL

ASSUME KeepAliveAssumption ==
    /\ KEEP_ALIVE_INTERVAL \in Nat \ {0}
    /\ KEEP_ALIVE_CHECK_PERIOD \in Nat \ {0}
    /\ KEEP_ALIVE_GRACE \in Nat
    /\ MaxDelay \in Nat /\ MaxSkew \in Nat /\ MaxQuiet \in Nat /\ MaxMissed \in Nat

VARIABLES
    node,      \* "connected": its timer does not run yet; "sending"; "dead"
    sinceSent, \* seconds since the timer was started or last expired
    unread,    \* KEEP_ALIVEs that are sent and not read
    quiet,     \* seconds since last_keep_alive was set
    stamp,     \* by how much the wall clock was wrong then
    skew,      \* by how much it is wrong now
    toCheck,   \* seconds to the next expiry of the server's timer
    failed,    \* checks since last_keep_alive was set
    missed,    \* those of them that did not get a lock
    reports    \* "Connection timeout" reports since then

sender == <<node, sinceSent, unread>>
clock == <<stamp, skew>>
checks == <<failed, missed, reports>>
vars == <<sender, quiet, clock, toCheck, checks>>

TypeOK ==
    /\ node \in {"connected", "sending", "dead"}
    /\ sinceSent \in Nat /\ unread \in Nat /\ quiet \in Nat
    /\ stamp \in -MaxSkew .. MaxSkew /\ skew \in -MaxSkew .. MaxSkew
    /\ toCheck \in 0 .. Period
    /\ failed \in Nat /\ missed \in Nat /\ reports \in Nat

\* connect_handler has just set last_keep_alive for a new connection.
Accepted == /\ node = "connected" /\ sinceSent = 0 /\ unread = 0
            /\ quiet = 0 /\ failed = 0 /\ missed = 0 /\ reports = 0

Init == Accepted /\ stamp \in -MaxSkew .. MaxSkew /\ skew = stamp /\ toCheck \in 0 .. Period

-----------------------------------------------------------------------------
(* The node.                                                               *)

\* The oldest KEEP_ALIVE that is not read was sent this long ago.
Oldest == sinceSent + KEEP_ALIVE_INTERVAL * (unread - 1)

\* start_sending goes on to create_timer.
create_timer ==
    /\ node = "connected" /\ node' = "sending" /\ sinceSent' = 0
    /\ UNCHANGED <<unread, quiet, clock, toCheck, checks>>

send_keep_alive ==
    /\ node = "sending" /\ sinceSent = KEEP_ALIVE_INTERVAL
    /\ sinceSent' = 0 /\ unread' = unread + 1
    /\ UNCHANGED <<node, quiet, clock, toCheck, checks>>

\* The node hangs, loses its power or its network: no FIN is sent.
Die ==
    /\ node # "dead" /\ node' = "dead"
    /\ UNCHANGED <<sinceSent, unread, quiet, clock, toCheck, checks>>

-----------------------------------------------------------------------------
(* The server.                                                             *)

\* fetch_item reads a KEEP_ALIVE.
fetch_item_NoStamp == \* mutant: last_keep_alive is not set
    /\ unread > 0 /\ unread' = unread - 1
    /\ failed' = 0 /\ missed' = 0 /\ reports' = 0
    /\ UNCHANGED <<node, sinceSent, quiet, clock, toCheck>>
fetch_item ==
    /\ unread > 0 /\ unread' = unread - 1
    /\ quiet' = 0 /\ stamp' = skew
    /\ failed' = 0 /\ missed' = 0 /\ reports' = 0
    /\ UNCHANGED <<node, sinceSent, skew, toCheck>>

\* now - condata->last_keep_alive
diff == quiet + skew - stamp

Expired_Millis == \* mutant: the timer takes seconds for milliseconds
    toCheck = 0 /\ toCheck' = 1000 * Period /\ failed' = failed + 1
Expired_NoPeriod == \* mutant: a check every KEEP_ALIVE_CHECK_PERIOD seconds
    toCheck = 0 /\ toCheck' = KEEP_ALIVE_CHECK_PERIOD /\ failed' = failed + 1
Expired == toCheck = 0 /\ toCheck' = Period /\ failed' = failed + 1

iter_keep_alives_Early == \* mutant: KEEP_ALIVE_GRACE seconds instead of checks
    /\ Expired
    /\ reports' = IF diff > KEEP_ALIVE_GRACE THEN reports + 1 ELSE reports
    /\ UNCHANGED <<sender, quiet, clock, missed>>
iter_keep_alives_Late == \* mutant: one check more than KEEP_ALIVE_GRACE
    /\ Expired
    /\ reports' = IF diff > KEEP_ALIVE_PROD + Period THEN reports + 1 ELSE reports
    /\ UNCHANGED <<sender, quiet, clock, missed>>
iter_keep_alives ==
    /\ Expired
    /\ reports' = IF diff > KEEP_ALIVE_PROD THEN reports + 1 ELSE reports
    /\ UNCHANGED <<sender, quiet, clock, missed>>

\* One of the two mutexes is not free, or malloc fails: nothing is reported.
SkippedCheck ==
    /\ Expired
    /\ missed < MaxMissed /\ missed' = missed + 1
    /\ UNCHANGED <<sender, quiet, clock, reports>>

\* The connection of a dead node is closed at last, and the node comes back.
Reconnect ==
    /\ node = "dead"
    /\ node' = "connected" /\ sinceSent' = 0 /\ unread' = 0
    /\ quiet' = 0 /\ stamp' = skew
    /\ failed' = 0 /\ missed' = 0 /\ reports' = 0
    /\ UNCHANGED <<skew, toCheck>>

-----------------------------------------------------------------------------
(* Time.                                                                   *)

\* Nothing that is due in this second is put off to the next.
InTime ==
    /\ toCheck > 0 /\ quiet < MaxQuiet
    /\ node = "connected" => sinceSent < MaxDelay
    /\ node = "sending" => sinceSent < KEEP_ALIVE_INTERVAL
    /\ unread > 0 => Oldest < MaxDelay

Tick ==
    /\ InTime
    /\ quiet' = quiet + 1 /\ toCheck' = toCheck - 1
    /\ sinceSent' = IF node = "dead" /\ unread = 0 THEN sinceSent ELSE sinceSent + 1
    /\ UNCHANGED <<node, unread, clock, checks>>

\* Somebody or NTP sets the wall clock.
SetClock(s) ==
    /\ skew' = s
    /\ UNCHANGED <<sender, quiet, stamp, toCheck, checks>>

Next == \/ create_timer \/ send_keep_alive \/ Die
        \/ fetch_item \/ iter_keep_alives \/ SkippedCheck \/ Reconnect
        \/ Tick \/ \E s \in -MaxSkew .. MaxSkew : SetClock(s)

Spec == Init /\ [][Next]_vars

-----------------------------------------------------------------------------
(* Properties.                                                             *)

\* A node that sends is never reported as timed out, whatever the phases of the
\* two timers, as long as delays and clock errors leave room in KEEP_ALIVE_PROD
\* (check_keep_alive).
NoFalseAlarm ==
    KEEP_ALIVE_INTERVAL + 2 * MaxDelay + 2 * MaxSkew <= KEEP_ALIVE_PROD
      => (node # "dead" => reports = 0)

\* A silent connection is reported at the latest by the first check after
\* KEEP_ALIVE_PROD seconds, plus what the clock was set back; each check that
\* finds a mutex locked costs one period (check_keep_alive, iter_keep_alives).
DetectedInTime ==
    reports = 0 => quiet <= KEEP_ALIVE_PROD + 2 * MaxSkew + Period * (missed + 1)

\* No report before the checks that KEEP_ALIVE_GRACE asks for have failed in a
\* row, unless the clock was set forward.
GraceIsGiven ==
    reports > 0 => Period * failed + 2 * MaxSkew > KEEP_ALIVE_PROD

\* A silence is reported again at every check, and no more often: read_buff
\* grows by one item for each period.
OneReportPerPeriod ==
    reports > 0 => KEEP_ALIVE_PROD + Period * (reports - 1) < quiet + 2 * MaxSkew
=============================================================================
