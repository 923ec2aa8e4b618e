------------------------------ MODULE FdService ------------------------------
(***************************************************************************)
(* What a file service promises to its callers, whichever of the four it    *)
(* is: files are sequences of bytes, a descriptor is a file, a position and *)
(* two rights, and every call takes effect at one moment.  FileService,     *)
(* with its disks, its lazily unpacked image and its locks, implements this. *)
(***************************************************************************)
EXTENDS Integers, Sequences

CONSTANTS Clients, Bytes

VARIABLES data,  \* inode -> the bytes of the file
          fds,   \* descriptor -> [inode, offset, readable, writable]
          buf,   \* client -> what its last read returned
          rest   \* client -> the bytes it has still to write

avars == <<data, fds, buf, rest>>

Init ==
    /\ DOMAIN fds = {}
    /\ \A i \in DOMAIN data : data[i] \in Seq(Bytes)
    /\ buf = [c \in Clients |-> <<>>]
    /\ rest = [c \in Clients |-> <<>>]

\* A file comes into being, empty.
Create ==
    /\ \E i \in DOMAIN data' \ DOMAIN data :
          data' = [j \in DOMAIN data \cup {i} |-> IF j = i THEN <<>> ELSE data[j]]
    /\ UNCHANGED <<fds, buf, rest>>

\* A descriptor nobody has, at the start of the file.
Open ==
    /\ \E fd \in DOMAIN fds' \ DOMAIN fds, i \in DOMAIN data, r, w \in BOOLEAN :
          fds' = [f \in DOMAIN fds \cup {fd} |->
                     IF f = fd THEN [inode |-> i, offset |-> 0, readable |-> r, writable |-> w]
                     ELSE fds[f]]
    /\ UNCHANGED <<data, buf, rest>>

\* Both at once.
CreateOpen ==
    /\ \E i \in DOMAIN data' \ DOMAIN data, fd \in DOMAIN fds' \ DOMAIN fds, r, w \in BOOLEAN :
          /\ data' = [j \in DOMAIN data \cup {i} |-> IF j = i THEN <<>> ELSE data[j]]
          /\ fds' = [f \in DOMAIN fds \cup {fd} |->
                        IF f = fd THEN [inode |-> i, offset |-> 0, readable |-> r, writable |-> w]
                        ELSE fds[f]]
    /\ UNCHANGED <<buf, rest>>

\* The bytes from the position on; none only at the end of the file.
Read(c) ==
    /\ \E fd \in DOMAIN fds :
         LET d == fds[fd]
             s == data[d.inode]
         IN /\ d.readable
            /\ \E k \in 0..Len(s) :
                 /\ k = 0 => d.offset >= Len(s)
                 /\ d.offset + k <= Len(s) \/ k = 0
                 /\ buf' = [buf EXCEPT ![c] = SubSeq(s, d.offset + 1, d.offset + k)]
                 /\ fds' = [fds EXCEPT ![fd].offset = @ + k]
    /\ UNCHANGED <<data, rest>>

\* A client sets out to write some bytes, or gives up.
Begin ==
    /\ \E c \in Clients : rest' = [rest EXCEPT ![c] = rest'[c]]
    /\ UNCHANGED <<data, fds, buf>>

\* The next of those bytes, at the position and nowhere else, in this file and
\* no other.
Write(c) ==
    /\ \E fd \in DOMAIN fds, k \in 1..Len(rest[c]) :
         LET d == fds[fd]
             s == data[d.inode]
             end == d.offset + k
         IN /\ d.writable
            /\ data' = [data EXCEPT ![d.inode] =
                   [n \in 1..(IF end > Len(s) THEN end ELSE Len(s)) |->
                       IF n \in (d.offset + 1)..end THEN rest[c][n - d.offset] ELSE s[n]]]
            /\ fds' = [fds EXCEPT ![fd].offset = end]
            /\ rest' = [rest EXCEPT ![c] = SubSeq(@, k + 1, Len(@))]
    /\ UNCHANGED buf

Seek ==
    /\ DOMAIN fds' = DOMAIN fds
    /\ \E fd \in DOMAIN fds : fds' = [fds EXCEPT ![fd].offset = fds'[fd].offset]
    /\ UNCHANGED <<data, buf, rest>>

Close ==
    /\ \E fd \in DOMAIN fds : fds' = [f \in DOMAIN fds \ {fd} |-> fds[f]]
    /\ UNCHANGED <<data, buf, rest>>

Next == Create \/ Open \/ CreateOpen \/ Begin \/ Seek \/ Close \/ \E c \in Clients : Read(c) \/ Write(c)

Spec == Init /\ [][Next]_avars
=============================================================================
