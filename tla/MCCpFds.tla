------------------------------ MODULE MCCpFds ------------------------------
(***************************************************************************)
(* The sizes of the event loop that TLC looks at.                          *)
(***************************************************************************)
EXTENDS CpFds

(* With two clients, and two sockets that one epoll_wait() reports: an     *)
(* event queue that is too small by one, for the two sockets that epoll    *)
(* then takes, and one that has room, for three sockets in epoll.          *)
AllLimits == {1, 2}
=============================================================================
