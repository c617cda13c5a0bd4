------------------------------ MODULE WireGuard ------------------------------
(***************************************************************************)
(* ShellWireGuardBackend of crate labman-wireguard: an interface is        *)
(* created, brought up, queried and deleted by commands of `ip`, each run  *)
(* by a process of its own.                                                *)
(*                                                                         *)
(* Several callers, each a process that may crash, work on one interface   *)
(* name.  The backend takes no lock and keeps no state: what there is, is  *)
(* the link in the kernel and the WireGuardInterface values that callers   *)
(* hold.  A caller uses the value it got until bring_down succeeds.        *)
(***************************************************************************)
EXTENDS Naturals

CONSTANTS
    Caller,
    Address,    \* addresses for the interface
    Blank,      \* an empty or blank string
    NoLink,     \* there is no link of the name
    NoInterface \* the caller holds no interface value

ASSUME BlankAssumption == Blank \notin Address

VARIABLES
    link,       \* the link in the kernel; owner and lost are history
    call,       \* per caller: the command create_interface is at
    cfg,        \* per caller: the configuration it last created with
    handle,     \* per caller: the interface value it holds
    answer      \* per caller: its last answer of status, for what it holds

vars == <<link, call, cfg, handle, answer>>

WireGuardConfig == [interfaceNamed : BOOLEAN, address : Address \cup {Blank}]
InterfaceStatus == {"Up", "Down", "Unknown"}
Link == [address : Address \cup {Blank}, up : BOOLEAN,
         owner : Caller,    \* who created it
         lost : BOOLEAN]    \* the owner crashed

\* WireGuardInterface, and whether bring_up returned Ok for it.
WireGuardInterface == [address : Address, up : BOOLEAN]
NoAnswer == "NoAnswer"
StatusErr == "Err"      \* status returned Err

ASSUME NothingAssumption == NoLink \notin Link /\ NoInterface \notin WireGuardInterface

Init ==
    /\ link = NoLink
    /\ call = [c \in Caller |-> "idle"]
    /\ cfg = [c \in Caller |-> [interfaceNamed |-> TRUE, address |-> Blank]]
    /\ handle = [c \in Caller |-> NoInterface]
    /\ answer = [c \in Caller |-> NoAnswer]

\* run_command returns Err: `ip` refuses, or cannot be run at all.
CommandFails(c) ==
    /\ call' = [call EXCEPT ![c] = "idle"]
    /\ UNCHANGED <<link, cfg, handle, answer>>

-----------------------------------------------------------------------------
(* create_interface.                                                       *)

\* Mutant of CreateInterface: the address is not looked at.
CreateInterfaceUnchecked(c, config) ==
    /\ call[c] = "idle"
    /\ cfg' = [cfg EXCEPT ![c] = config]
    /\ call' = [call EXCEPT ![c] = IF config.interfaceNamed THEN "link add" ELSE "idle"]
    /\ UNCHANGED <<link, handle, answer>>

\* A blank name or address is refused before any command.
CreateInterface(c, config) ==
    /\ call[c] = "idle"
    /\ cfg' = [cfg EXCEPT ![c] = config]
    /\ call' = [call EXCEPT ![c] = IF config.interfaceNamed /\ config.address # Blank
                                   THEN "link add" ELSE "idle"]
    /\ UNCHANGED <<link, handle, answer>>

\* Mutant of AddLink: a link that exists already counts as added.
AddLinkAdopts(c) ==
    /\ call[c] = "link add"
    /\ link' = IF link = NoLink
               THEN [address |-> Blank, up |-> FALSE, owner |-> c, lost |-> FALSE]
               ELSE link
    /\ call' = [call EXCEPT ![c] = "address add"]
    /\ UNCHANGED <<cfg, handle, answer>>

\* `ip link add`; a link of the name must not exist.
AddLink(c) ==
    /\ call[c] = "link add"
    /\ \/ /\ link = NoLink
          /\ link' = [address |-> Blank, up |-> FALSE, owner |-> c, lost |-> FALSE]
          /\ call' = [call EXCEPT ![c] = "address add"]
          /\ UNCHANGED <<cfg, handle, answer>>
       \/ CommandFails(c)

\* `ip address add`.  If it fails, the link stays.
AddAddress(c) ==
    /\ call[c] = "address add"
    /\ \/ /\ link # NoLink
          /\ link' = [link EXCEPT !.address = cfg[c].address]
          /\ handle' = [handle EXCEPT ![c] = [address |-> cfg[c].address, up |-> FALSE]]
          /\ call' = [call EXCEPT ![c] = "idle"]
          /\ UNCHANGED <<cfg, answer>>
       \/ CommandFails(c)

-----------------------------------------------------------------------------
(* The operations on an interface value.  Their failures change nothing.   *)

Holds(c) == call[c] = "idle" /\ handle[c] # NoInterface

\* `ip link set up`.
BringUp(c) ==
    /\ Holds(c)
    /\ link # NoLink
    /\ link' = [link EXCEPT !.up = TRUE]
    /\ handle' = [handle EXCEPT ![c].up = TRUE]
    /\ answer' = [answer EXCEPT ![c] = NoAnswer]
    /\ UNCHANGED <<call, cfg>>

\* Mutant of BringDown: a failure is ignored.
BringDownForgets(c) ==
    /\ Holds(c)
    /\ link' \in {link, NoLink}
    /\ handle' = [handle EXCEPT ![c] = NoInterface]
    /\ answer' = [answer EXCEPT ![c] = NoAnswer]
    /\ UNCHANGED <<call, cfg>>

\* `ip link del`.
BringDown(c) ==
    /\ Holds(c)
    /\ link # NoLink
    /\ link' = NoLink
    /\ handle' = [handle EXCEPT ![c] = NoInterface]
    /\ answer' = [answer EXCEPT ![c] = NoAnswer]
    /\ UNCHANGED <<call, cfg>>

\* What `ip link show` says of a link: a WireGuard device that is up may
\* report UNKNOWN as its operational state.
Shown == IF link.up THEN {"Up", "Unknown"} ELSE {"Down"}

\* Mutant of Status: a command that fails means down.
StatusDownOnFailure(c) ==
    /\ call[c] = "idle"
    /\ \E status \in {"Down", StatusErr} \cup (IF link = NoLink THEN {} ELSE Shown) :
           answer' = [answer EXCEPT ![c] = status]
    /\ UNCHANGED <<link, call, cfg, handle>>

\* An error when `ip` cannot be run; Unknown when it runs and fails, for lack
\* of a link or otherwise.
Status(c) ==
    /\ call[c] = "idle"
    /\ \E status \in {"Unknown", StatusErr} \cup (IF link = NoLink THEN {} ELSE Shown) :
           answer' = [answer EXCEPT ![c] = status]
    /\ UNCHANGED <<link, call, cfg, handle>>

-----------------------------------------------------------------------------
(* Crashes, and the operator.                                              *)

\* The process of a caller dies, with no command of its under way; the kernel
\* keeps the link.
Crash(c) ==
    /\ call[c] # "idle" \/ handle[c] # NoInterface
    /\ link' = IF link # NoLink /\ link.owner = c THEN [link EXCEPT !.lost = TRUE] ELSE link
    /\ call' = [call EXCEPT ![c] = "idle"]
    /\ handle' = [handle EXCEPT ![c] = NoInterface]
    /\ answer' = [answer EXCEPT ![c] = NoAnswer]
    /\ UNCHANGED cfg

\* A link that no caller works with or holds a value of.
Residue ==
    /\ link # NoLink
    /\ \A c \in Caller : handle[c] = NoInterface /\ call[c] # "address add"

\* Nothing in the crate deletes a residue; an operator may.
OperatorDeletes ==
    /\ Residue
    /\ link' = NoLink
    /\ UNCHANGED <<call, cfg, handle, answer>>

Next ==
    \/ \E c \in Caller :
        \/ \E config \in WireGuardConfig : CreateInterface(c, config)
        \/ AddLink(c) \/ AddAddress(c)
        \/ BringUp(c) \/ BringDown(c) \/ Status(c)
        \/ Crash(c)
    \/ OperatorDeletes

Spec == Init /\ [][Next]_vars

-----------------------------------------------------------------------------
(* Properties.                                                             *)

\* Every variable has its type.
WgTypeOK ==
    /\ link \in Link \cup {NoLink}
    /\ call \in [Caller -> {"idle", "link add", "address add"}]
    /\ cfg \in [Caller -> WireGuardConfig]
    /\ handle \in [Caller -> WireGuardInterface \cup {NoInterface}]
    /\ answer \in [Caller -> InterfaceStatus \cup {NoAnswer, StatusErr}]

\* Whoever holds an interface value made the link it stands for, with the
\* address it asked for, and it is up if bring_up said so: no create of
\* another process, no failure half way and no crash in between can make two
\* callers own one link, or take it from its owner.
HandleMeansOwnLink ==
    \A c \in Caller : handle[c] # NoInterface =>
        /\ link # NoLink
        /\ link.owner = c /\ ~link.lost
        /\ link.address = handle[c].address
        /\ handle[c].up => link.up

\* What a create leaves behind when its second command fails is a bare link:
\* down and without an address.  Only a crash leaves one that carries
\* traffic.
ResidueIsBare ==
    Residue /\ ~link.lost => link.address = Blank /\ ~link.up

\* The owner of an interface it brought up is never told that it is down.
StatusNeverContradicts ==
    \A c \in Caller :
        handle[c] # NoInterface /\ answer[c] = "Down" => ~handle[c].up
=============================================================================
