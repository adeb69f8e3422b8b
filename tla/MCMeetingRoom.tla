--------------------------- MODULE MCMeetingRoom ----------------------------
(* Two connections to a meeting.  Connections and users are interchangeable, *)
(* so the first one may be given the first user and, as a meeting that no    *)
(* host joins is never started, the role of a host; the second is another    *)
(* tab or a reconnect of the same user, or another user, in any role.        *)
EXTENDS MeetingRoom, TLC

CONSTANTS c1, c2, u1, u2

HostAndAnyone == (c1 :> {u1}) @@ (c2 :> {u1, u2})
HostAndRoles  == (c1 :> {"host"}) @@ (c2 :> {"host", "co-host", "participant"})

\* The host alone, on two connections.
HostTwice      == (c1 :> {u1}) @@ (c2 :> {u1})
HostTwiceRoles == (c1 :> {"host"}) @@ (c2 :> {"host"})
=============================================================================
