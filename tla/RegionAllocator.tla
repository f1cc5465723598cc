--------------------------- MODULE RegionAllocator ---------------------------
(***************************************************************************)
(* What allocate_frame and kmalloc of src/kernel/memory.c promise their    *)
(* callers: memory between a start and a limit that is learned once,       *)
(* aligned, of which nobody else has a byte; and the refusal of a request  *)
(* only when this request does not fit above what was given, or after      *)
(* another was refused.  A request that would reach the limit exactly does *)
(* not fit.  The promise lapses when all requests together, the refused    *)
(* ones included, ask for more than the address space has.                 *)
(***************************************************************************)
EXTENDS Integers

CONSTANTS Start,     \* below it nothing is given
          Align,     \* what is given starts at a multiple of this
          Space,     \* where the address space ends
          Requests   \* how many bytes callers ask for

VARIABLES limit,     \* the end of memory
          given,     \* the regions given: [base, size]
          refused,   \* a request was refused
          call,      \* the last request: [size, given]
          asked,     \* what all requests so far add up to, each rounded up
          lapsed     \* that is more than the address space has

vars == <<limit, given, refused, call, asked, lapsed>>

Unknown == -1

Init ==
    /\ limit = Unknown
    /\ given = {}
    /\ refused = FALSE
    /\ call = [size |-> 0, given |-> FALSE]
    /\ asked = 0
    /\ lapsed = FALSE

Learn ==
    /\ limit = Unknown
    /\ limit' \in Nat
    /\ UNCHANGED <<given, refused, call, asked, lapsed>>

\* The next multiple of Align.
Up(n) == (n + Align - 1) - ((n + Align - 1) % Align)

Apart(r, s) == r.base + r.size <= s.base \/ s.base + s.size <= r.base

\* Where what was given ends, and below which nothing more may fit.
Ends == {Start} \cup {r.base + r.size : r \in given}

\* There is room for the request above everything given, and a byte to spare.
Fits(size) == \A top \in Ends : Up(top) + Up(size) < limit

\* Any place that is free will do.
Grant(size) ==
    /\ ~refused /\ Fits(size)
    /\ \E base \in Start .. limit - size :
         LET region == [base |-> base, size |-> size] IN
         /\ base % Align = 0
         /\ \A r \in given : Apart(r, region)
         /\ given' = given \cup {region}
    /\ call' = [size |-> size, given |-> TRUE]
    /\ UNCHANGED refused

\* The first request that is refused does not fit; after it none is given anything.
Refuse(size) ==
    /\ refused \/ ~Fits(size)
    /\ refused' = TRUE
    /\ call' = [size |-> size, given |-> FALSE]
    /\ UNCHANGED given

\* A request is counted and answered.
Request(size) ==
    /\ limit # Unknown /\ ~lapsed
    /\ Start + asked + Up(size) < Space
    /\ asked' = asked + Up(size)
    /\ Grant(size) \/ Refuse(size)
    /\ UNCHANGED <<limit, lapsed>>

\* A request too many.  From here on nothing is promised.
Lapse(size) ==
    /\ limit # Unknown /\ ~lapsed
    /\ Start + asked + Up(size) >= Space
    /\ lapsed' = TRUE

Lapsed == lapsed /\ lapsed' = TRUE

Next ==
    \/ Learn
    \/ \E size \in Requests : Request(size) \/ Lapse(size)
    \/ Lapsed

Spec == Init /\ [][Next]_vars
=============================================================================
