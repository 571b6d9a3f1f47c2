---------------------------- MODULE AuthRateLimit ----------------------------
(***************************************************************************)
(* The two tiers before every /auth/* route (middleware.go authRateLimit): *)
(* a counter per path, then a counter per IP and path, both kept by one    *)
(* RateLimiter.  Each allow holds the limiter's mutex for itself only, so  *)
(* other requests, and time, pass between the two.                         *)
(***************************************************************************)
EXTENDS RateLimiter, FiniteSets

CONSTANTS
    Ips,       \* what clientIP may return
    AnyIp,     \* stands in the key of the first tier, "path:" + path
    Paths,     \* the rate-limited routes
    Reqs,      \* requests being handled at a time
    Idle       \* a request slot not between the tiers

(* A request past the first tier: the n-th that the path let through.      *)
Entered == [ip : Ips, path : Paths, n : Nat]

ASSUME AnyIpAssumption == AnyIp \notin Ips
ASSUME IdleAssumption == Idle \notin Entered

(* "path:/auth/x" is <<AnyIp, /auth/x>>, "ip:1.2.3.4|/auth/x" is           *)
(* <<1.2.3.4, /auth/x>>.                                                   *)
PathKey(p) == <<AnyIp, p>>

(* mutant: the second tier uses the counter of the first again. *)
IpKeyAsPath(ip, p) == PathKey(p)

IpKey(ip, p) == <<ip, p>>
TierKeys == (Ips \cup {AnyIp}) \X Paths

ASSUME KeysAssumption == TierKeys \subseteq Keys

VARIABLES
    between,      \* the Entered request in a slot, or Idle
    served,       \* history: requests that went on to their handler, each with
                  \* its place i among those that the counter of its IP let through
    turned        \* history: requests the second tier refused, and when

tierVars == <<vars, between, served, turned>>

TierInit ==
    /\ Init
    /\ between = [r \in Reqs |-> Idle]
    /\ served = {}
    /\ turned = {}

Enters(r, ip, p) ==
    between' = [between EXCEPT ![r] =
                    [ip |-> ip, path |-> p, n |-> Len(admitted[PathKey(p)]) + 1]]

(* mutant: the first tier records the hit and does not compare. *)
PathOnlyCounts(r) ==
    /\ between[r] = Idle
    /\ \E ip \in Ips, p \in Paths :
          /\ hits' = [hits EXCEPT ![PathKey(p)] = Append(@, now)]
          /\ admitted' = [admitted EXCEPT ![PathKey(p)] = Append(@, now)]
          /\ Enters(r, ip, p)
    /\ UNCHANGED <<now, refused, served, turned>>

PathAdmits(r) ==
    /\ between[r] = Idle
    /\ \E ip \in Ips, p \in Paths : Admit(PathKey(p)) /\ Enters(r, ip, p)
    /\ UNCHANGED <<served, turned>>

PathRefuses(r) ==
    /\ between[r] = Idle
    /\ \E p \in Paths : Refuse(PathKey(p))
    /\ UNCHANGED <<between, served, turned>>

IpAdmits(r) ==
    /\ between[r] # Idle
    /\ LET key == IpKey(between[r].ip, between[r].path)
       IN /\ Admit(key)
          /\ served' = served \cup {[who |-> between[r], i |-> Len(admitted[key]) + 1]}
    /\ between' = [between EXCEPT ![r] = Idle]
    /\ UNCHANGED turned

IpRefuses(r) ==
    /\ between[r] # Idle
    /\ Refuse(IpKey(between[r].ip, between[r].path))
    /\ turned' = turned \cup {[who |-> between[r], at |-> now]}
    /\ between' = [between EXCEPT ![r] = Idle]
    /\ UNCHANGED served

TierTick == Tick /\ UNCHANGED <<between, served, turned>>

TierNext ==
    \/ \E r \in Reqs : PathAdmits(r) \/ PathRefuses(r) \/ IpAdmits(r) \/ IpRefuses(r)
    \/ TierTick

TierSpec == TierInit /\ [][TierNext]_tierVars

-----------------------------------------------------------------------------
(* When a request came, and when it went on to its handler.                *)
Came(who) == admitted[PathKey(who.path)][who.n]
Went(s) == admitted[IpKey(s.who.ip, s.who.path)][s.i]

(* Time and other requests pass between the two tiers; still, of the       *)
(* requests that come to a path in a window, whatever their IPs, no more   *)
(* than Limit are served in it.  More are served in a window only by as    *)
(* many as were between the tiers when it began.                           *)
ServedWithinLimit ==
    \A p \in Paths, t \in 0..now :
        Cardinality({s \in served :
            s.who.path = p /\ Came(s.who) >= t /\ Went(s) < t + Window}) <= Limit

(* The second tier never refuses on its own account.  When it does, a      *)
(* request of this IP, the refused one or one counted against it in the    *)
(* window, had come before the window and was held up between the tiers:   *)
(* without that, the first tier reaches its limit first (comment of        *)
(* middleware.go:178, "fairness for normal users sharing the same path").  *)
SecondTierNeedsDelay ==
    \A d \in turned :
        LET windowStart == d.at - Window
        IN \/ Came(d.who) <= windowStart
           \/ \E s \in served :
                 /\ s.who.ip = d.who.ip /\ s.who.path = d.who.path
                 /\ Came(s.who) <= windowStart
                 /\ windowStart < Went(s) /\ Went(s) <= d.at
=============================================================================
