-------------------------------- MODULE Epoll --------------------------------
(***************************************************************************)
(* The class epoll: the map events it keeps of what it believes to be      *)
(* registered, and what the kernel really has registered.  They can differ *)
(* because closing a descriptor deletes the kernel's registration and      *)
(* leaves the map alone.                                                   *)
(*                                                                         *)
(* A state io is a record: io.ev is the map events (a missing entry and    *)
(* the value 0 act alike, and are the empty set), io.ker the registrations *)
(* of the kernel (the empty set for an unregistered descriptor).  When     *)
(* epoll_ctl fails, add and remove return -1 and change nothing.           *)
(***************************************************************************)

RDWR == {"rd", "wr"}

\* Mutant of AddEvent: the map is updated before epoll_ctl is known to succeed
\* and the kernel gets the new event only.
AddEventOnly(io, fd, type) ==
    IF type \in io.ev[fd] THEN io
    ELSE [ev  |-> [io.ev  EXCEPT ![fd] = @ \cup {type}],
          ker |-> [io.ker EXCEPT ![fd] = {type}]]

\* epoll::add.  EPOLL_CTL_ADD for a descriptor without entry, which the kernel
\* refuses if it is registered; else EPOLL_CTL_MOD, refused if it is not.
AddEvent(io, fd, type) ==
    LET old   == io.ev[fd]
        event == old \cup {type}
    IN  IF old = RDWR \/ old = {type} \/ (old = {}) # (io.ker[fd] = {})
        THEN io
        ELSE [ev  |-> [io.ev  EXCEPT ![fd] = event],
              ker |-> [io.ker EXCEPT ![fd] = event]]

\* Mutant of RemoveEvent: always EPOLL_CTL_DEL.
RemoveAllEvents(io, fd, type) ==
    IF type \notin io.ev[fd] \/ io.ker[fd] = {}
    THEN io
    ELSE [ev  |-> [io.ev  EXCEPT ![fd] = @ \ {type}],
          ker |-> [io.ker EXCEPT ![fd] = {}]]

\* epoll::remove.  EPOLL_CTL_MOD if the other event stays, else EPOLL_CTL_DEL;
\* the kernel refuses both for a descriptor that is not registered.
RemoveEvent(io, fd, type) ==
    IF type \notin io.ev[fd] \/ io.ker[fd] = {}
    THEN io
    ELSE [ev  |-> [io.ev  EXCEPT ![fd] = @ \ {type}],
          ker |-> [io.ker EXCEPT ![fd] = io.ev[fd] \ {type}]]

\* The last reference to a descriptor is closed: the kernel unregisters it.
CloseEvents(io, fd) == [io EXCEPT !.ker[fd] = {}]
=============================================================================
