--------------------------- MODULE WireGuardProofs ---------------------------
(***************************************************************************)
(* The WireGuard backend for any number of callers and addresses: an       *)
(* interface value always stands for the holder's own link.                *)
(***************************************************************************)
EXTENDS WireGuard, TLAPS

\* A link as `ip link add` leaves it.
Bare(l) == l.address = Blank /\ ~l.up

\* A caller between its two commands has just made the link.
AddingOwnsBareLink ==
    \A c \in Caller : call[c] = "address add" =>
        link # NoLink /\ link.owner = c /\ ~link.lost /\ Bare(link)

\* A link that carries an address or traffic, and was not lost, is held.
ConfiguredIsHeld ==
    link # NoLink /\ ~link.lost /\ ~Bare(link) => handle[link.owner] # NoInterface

\* A command runs only for a configuration with an address.
AddressGiven == \A c \in Caller : call[c] # "idle" => cfg[c].address # Blank

WgInv ==
    /\ WgTypeOK
    /\ AddressGiven
    /\ HandleMeansOwnLink
    /\ StatusNeverContradicts
    /\ AddingOwnsBareLink
    /\ ConfiguredIsHeld

\* A refused configuration starts no command.
LEMMA CreateKeepsInv ==
    ASSUME WgInv, NEW c \in Caller, NEW config \in WireGuardConfig, CreateInterface(c, config)
    PROVE  WgInv'
  <1>1. WgTypeOK'
    BY DEF CreateInterface, WgInv, WgTypeOK
  <1>2. /\ call[c] = "idle" /\ call'[c] # "address add"
        /\ call'[c] # "idle" => cfg'[c].address # Blank
        /\ \A d \in Caller \ {c} : cfg'[d] = cfg[d]
    BY DEF CreateInterface, WgInv, WgTypeOK
  <1>3. UNCHANGED <<link, handle, answer>> /\ \A d \in Caller \ {c} : call'[d] = call[d]
    BY DEF CreateInterface, WgInv, WgTypeOK
  <1> QED
    BY <1>1, <1>2, <1>3
    DEF WgInv, AddressGiven, HandleMeansOwnLink, StatusNeverContradicts,
        AddingOwnsBareLink, ConfiguredIsHeld, Bare

\* A command that fails leaves everything but the call as it was.
LEMMA FailureKeepsInv ==
    ASSUME WgInv, NEW c \in Caller, CommandFails(c)
    PROVE  WgInv'
  <1>1. WgTypeOK'
    BY DEF CommandFails, WgInv, WgTypeOK
  <1>2. /\ call'[c] = "idle" /\ UNCHANGED <<link, cfg, handle, answer>>
        /\ \A d \in Caller \ {c} : call'[d] = call[d]
    BY DEF CommandFails, WgInv, WgTypeOK
  <1> QED
    BY <1>1, <1>2
    DEF WgInv, AddressGiven, HandleMeansOwnLink, StatusNeverContradicts,
        AddingOwnsBareLink, ConfiguredIsHeld, Bare

\* `ip link add` makes a bare link that its caller owns.
LEMMA AddLinkKeepsInv ==
    ASSUME WgInv, NEW c \in Caller, AddLink(c)
    PROVE  WgInv'
  <1> DEFINE new == [address |-> Blank, up |-> FALSE, owner |-> c, lost |-> FALSE]
  <1>1. CASE CommandFails(c)
    BY <1>1, FailureKeepsInv
  <1>2. CASE ~CommandFails(c)
    <2>1. link = NoLink /\ link' = new /\ UNCHANGED <<cfg, handle, answer>>
      BY <1>2 DEF AddLink
    <2>2. call'[c] = "address add" /\ \A d \in Caller \ {c} : call'[d] = call[d]
      BY <1>2 DEF AddLink, WgInv, WgTypeOK
    <2>3. new \in Link /\ Bare(new) /\ new.owner = c /\ ~new.lost
      BY DEF Link, Bare
    <2>4. WgTypeOK'
      BY <1>2, <2>1, <2>3 DEF AddLink, WgInv, WgTypeOK
    <2>5. \A d \in Caller : handle[d] = NoInterface /\ (d # c => call[d] # "address add")
      BY <2>1 DEF WgInv, HandleMeansOwnLink, AddingOwnsBareLink
    <2>6. link' # NoLink
      BY <2>1, <2>3, NothingAssumption
    <2>7. AddressGiven'
      BY <1>2, <2>1, <2>2 DEF AddLink, WgInv, AddressGiven
    <2> QED
      BY <2>1, <2>2, <2>3, <2>4, <2>5, <2>6, <2>7
      DEF WgInv, HandleMeansOwnLink, StatusNeverContradicts, AddingOwnsBareLink,
          ConfiguredIsHeld
  <1> QED BY <1>1, <1>2

\* `ip address add` configures the caller's own link.
LEMMA AddAddressKeepsInv ==
    ASSUME WgInv, NEW c \in Caller, AddAddress(c)
    PROVE  WgInv'
  <1>1. CASE CommandFails(c)
    BY <1>1, FailureKeepsInv
  <1>2. CASE ~CommandFails(c)
    <2> DEFINE l == [link EXCEPT !.address = cfg[c].address]
               h == [address |-> cfg[c].address, up |-> FALSE]
    <2>1. /\ call[c] = "address add" /\ link' = l
          /\ handle' = [handle EXCEPT ![c] = h]
          /\ call' = [call EXCEPT ![c] = "idle"]
          /\ UNCHANGED <<cfg, answer>>
      BY <1>2 DEF AddAddress
    <2>2. link # NoLink /\ link.owner = c /\ ~link.lost /\ Bare(link) /\ link \in Link
      BY <2>1 DEF WgInv, AddingOwnsBareLink, WgTypeOK
    <2>3. l \in Link /\ l.owner = c /\ ~l.lost /\ l.address = cfg[c].address /\ ~l.up
      BY <2>2 DEF Link, Bare, WgInv, WgTypeOK, WireGuardConfig
    <2>4. h \in WireGuardInterface /\ h.address = cfg[c].address /\ ~h.up
      BY <2>1 DEF WireGuardInterface, WgInv, WgTypeOK, WireGuardConfig, AddressGiven
    <2>5. /\ call'[c] = "idle" /\ handle'[c] = h
          /\ \A d \in Caller \ {c} : call'[d] = call[d] /\ handle'[d] = handle[d]
      BY <2>1 DEF WgInv, WgTypeOK
    <2>6. WgTypeOK'
      <3> HIDE DEF l, h
      <3> QED BY <2>1, <2>3, <2>4 DEF WgInv, WgTypeOK
    <2>7. \A d \in Caller \ {c} : handle[d] = NoInterface /\ call[d] # "address add"
      BY <2>2 DEF WgInv, HandleMeansOwnLink, AddingOwnsBareLink
    <2>8. link' # NoLink /\ h # NoInterface
      BY <2>1, <2>3, <2>4, NothingAssumption
    <2>9. AddressGiven'
      BY <2>1, <2>5 DEF WgInv, AddressGiven
    <2> HIDE DEF l, h
    <2>10. HandleMeansOwnLink'
      <3>1. link' # NoLink /\ link'.owner = c /\ ~link'.lost /\ link'.address = handle'[c].address
        BY <2>1, <2>3, <2>4, <2>5, <2>8
      <3>2. ~handle'[c].up /\ \A d \in Caller \ {c} : handle'[d] = NoInterface
        BY <2>4, <2>5, <2>7
      <3> QED BY <3>1, <3>2 DEF HandleMeansOwnLink
    <2>11. StatusNeverContradicts'
      BY <2>4, <2>5, <2>7 DEF StatusNeverContradicts
    <2>12. AddingOwnsBareLink'
      BY <2>5, <2>7 DEF AddingOwnsBareLink
    <2>13. ConfiguredIsHeld'
      BY <2>1, <2>3, <2>5, <2>8 DEF ConfiguredIsHeld
    <2> QED
      BY <2>6, <2>9, <2>10, <2>11, <2>12, <2>13 DEF WgInv
  <1> QED BY <1>1, <1>2

\* `ip link set up` raises the holder's own link.
LEMMA BringUpKeepsInv ==
    ASSUME WgInv, NEW c \in Caller, BringUp(c)
    PROVE  WgInv'
  <1> DEFINE l == [link EXCEPT !.up = TRUE]
             h == [handle[c] EXCEPT !.up = TRUE]
  <1>1. /\ call[c] = "idle" /\ handle[c] # NoInterface /\ handle[c] \in WireGuardInterface
        /\ link # NoLink /\ link \in Link
        /\ link.owner = c /\ ~link.lost /\ link.address = handle[c].address
    BY DEF BringUp, Holds, WgInv, WgTypeOK, HandleMeansOwnLink
  <1>2. /\ link' = l /\ handle' = [handle EXCEPT ![c] = h]
        /\ answer' = [answer EXCEPT ![c] = NoAnswer]
        /\ UNCHANGED <<call, cfg>>
    BY DEF BringUp, WgInv, WgTypeOK
  <1>3. l \in Link /\ l.owner = c /\ ~l.lost /\ l.address = link.address /\ l.up
    BY <1>1 DEF Link
  <1>4. h \in WireGuardInterface /\ h.address = handle[c].address
    BY <1>1 DEF WireGuardInterface
  <1>5. /\ handle'[c] = h /\ answer'[c] = NoAnswer
        /\ \A d \in Caller \ {c} : handle'[d] = handle[d] /\ answer'[d] = answer[d]
    BY <1>2 DEF WgInv, WgTypeOK
  <1>6. WgTypeOK'
    <2> HIDE DEF l, h
    <2> QED BY <1>2, <1>3, <1>4 DEF WgInv, WgTypeOK
  <1>7. /\ \A d \in Caller \ {c} : handle[d] = NoInterface
        /\ \A d \in Caller : call[d] # "address add"
    BY <1>1 DEF WgInv, HandleMeansOwnLink, AddingOwnsBareLink
  <1>8. link' # NoLink /\ h # NoInterface
    BY <1>2, <1>3, <1>4, NothingAssumption
  <1> HIDE DEF l, h
  <1> QED
    BY <1>1, <1>2, <1>3, <1>4, <1>5, <1>6, <1>7, <1>8
    DEF WgInv, AddressGiven, HandleMeansOwnLink, StatusNeverContradicts,
        AddingOwnsBareLink, ConfiguredIsHeld, NoAnswer

\* `ip link del` takes the holder's own link, and nobody else's.
LEMMA BringDownKeepsInv ==
    ASSUME WgInv, NEW c \in Caller, BringDown(c)
    PROVE  WgInv'
  <1>1. call[c] = "idle" /\ link # NoLink /\ link.owner = c
    BY DEF BringDown, Holds, WgInv, HandleMeansOwnLink
  <1>2. \A d \in Caller : handle'[d] = NoInterface /\ call[d] # "address add"
    BY <1>1 DEF BringDown, WgInv, WgTypeOK, HandleMeansOwnLink, AddingOwnsBareLink
  <1>3. WgTypeOK'
    BY DEF BringDown, WgInv, WgTypeOK
  <1> QED
    BY <1>2, <1>3
    DEF BringDown, WgInv, AddressGiven, HandleMeansOwnLink, StatusNeverContradicts,
        AddingOwnsBareLink, ConfiguredIsHeld

\* status answers "Down" only for a link that is down.
LEMMA StatusKeepsInv ==
    ASSUME WgInv, NEW c \in Caller, Status(c)
    PROVE  WgInv'
  <1>1. PICK status \in {"Unknown", StatusErr} \cup (IF link = NoLink THEN {} ELSE Shown) :
            answer' = [answer EXCEPT ![c] = status]
    BY DEF Status
  <1>2. UNCHANGED <<link, call, cfg, handle>>
    BY DEF Status
  <1>3. /\ status \in InterfaceStatus \cup {StatusErr}
        /\ status = "Down" => link # NoLink /\ ~link.up
    BY <1>1 DEF Shown, InterfaceStatus, StatusErr
  <1>4. WgTypeOK'
    BY <1>1, <1>2, <1>3 DEF WgInv, WgTypeOK
  <1>5. StatusNeverContradicts'
    BY <1>1, <1>2, <1>3 DEF WgInv, WgTypeOK, StatusNeverContradicts, HandleMeansOwnLink
  <1> QED
    BY <1>2, <1>4, <1>5
    DEF WgInv, AddressGiven, HandleMeansOwnLink, AddingOwnsBareLink, ConfiguredIsHeld, Bare

\* A crash loses only the caller's own link.
LEMMA CrashKeepsInv ==
    ASSUME WgInv, NEW c \in Caller, Crash(c)
    PROVE  WgInv'
  <1>1. /\ call'[c] = "idle" /\ handle'[c] = NoInterface
        /\ \A d \in Caller \ {c} : /\ call'[d] = call[d] /\ handle'[d] = handle[d]
                                   /\ answer'[d] = answer[d]
        /\ cfg' = cfg
    BY DEF Crash, WgInv, WgTypeOK
  <1>2. CASE link # NoLink /\ link.owner = c
    <2> DEFINE l == [link EXCEPT !.lost = TRUE]
    <2>1. link' = l /\ link \in Link
      BY <1>2 DEF Crash, WgInv, WgTypeOK
    <2>2. l \in Link /\ l.lost
      BY <2>1 DEF Link
    <2>3. WgTypeOK'
      <3> HIDE DEF l
      <3> QED BY <2>1, <2>2 DEF Crash, WgInv, WgTypeOK
    <2>4. \A d \in Caller \ {c} : handle[d] = NoInterface /\ call[d] # "address add"
      BY <1>2 DEF WgInv, HandleMeansOwnLink, AddingOwnsBareLink
    <2> HIDE DEF l
    <2> QED
      BY <1>1, <2>1, <2>2, <2>3, <2>4
      DEF WgInv, AddressGiven, HandleMeansOwnLink, StatusNeverContradicts,
          AddingOwnsBareLink, ConfiguredIsHeld
  <1>3. CASE link = NoLink \/ link.owner # c
    <2>1. link' = link
      BY <1>3 DEF Crash
    <2>2. WgTypeOK'
      BY <2>1 DEF Crash, WgInv, WgTypeOK
    <2>3. link # NoLink => link.owner \in Caller
      BY DEF WgInv, WgTypeOK, Link
    <2>4. AddressGiven' /\ AddingOwnsBareLink'
      BY <1>1, <2>1 DEF WgInv, AddressGiven, AddingOwnsBareLink, Bare
    <2>5. HandleMeansOwnLink' /\ StatusNeverContradicts'
      BY <1>1, <2>1 DEF WgInv, HandleMeansOwnLink, StatusNeverContradicts
    <2>6. ConfiguredIsHeld'
      BY <1>1, <1>3, <2>1, <2>3 DEF WgInv, ConfiguredIsHeld, Bare
    <2> QED
      BY <2>2, <2>4, <2>5, <2>6 DEF WgInv
  <1> QED BY <1>2, <1>3

\* An operator deletes only what nobody holds.
LEMMA OperatorKeepsInv ==
    ASSUME WgInv, OperatorDeletes
    PROVE  WgInv'
  BY DEF OperatorDeletes, Residue, WgInv, WgTypeOK, AddressGiven, HandleMeansOwnLink,
         StatusNeverContradicts, AddingOwnsBareLink, ConfiguredIsHeld

\* The invariant holds for every number of callers and addresses.
THEOREM WgInvariant == Spec => []WgInv
  <1>1. Init => WgInv
    BY DEF Init, WgInv, WgTypeOK, WireGuardConfig, AddressGiven, HandleMeansOwnLink,
           StatusNeverContradicts, AddingOwnsBareLink, ConfiguredIsHeld
  <1>2. WgInv /\ [Next]_vars => WgInv'
    <2> SUFFICES ASSUME WgInv, [Next]_vars
                 PROVE  WgInv'
      OBVIOUS
    <2>1. CASE Next
      BY <2>1, CreateKeepsInv, AddLinkKeepsInv, AddAddressKeepsInv, BringUpKeepsInv,
         BringDownKeepsInv, StatusKeepsInv, CrashKeepsInv, OperatorKeepsInv DEF Next
    <2>2. CASE UNCHANGED vars
      BY <2>2
      DEF vars, WgInv, WgTypeOK, AddressGiven, HandleMeansOwnLink,
          StatusNeverContradicts, AddingOwnsBareLink, ConfiguredIsHeld, Bare
    <2> QED BY <2>1, <2>2
  <1> QED BY <1>1, <1>2, PTL DEF Spec

\* Every variable has its type.
THEOREM WgTypeCorrect == Spec => []WgTypeOK
  <1>1. WgInv => WgTypeOK
    BY DEF WgInv
  <1> QED BY <1>1, WgInvariant, PTL

\* Whoever holds an interface value owns the link it stands for, however many
\* processes create, fail, delete and crash.
THEOREM HandleAlwaysMeansOwnLink == Spec => []HandleMeansOwnLink
  <1>1. WgInv => HandleMeansOwnLink
    BY DEF WgInv
  <1> QED BY <1>1, WgInvariant, PTL

\* A failed create leaves a link that carries nothing.
THEOREM ResidueAlwaysBare == Spec => []ResidueIsBare
  <1>1. WgInv => ResidueIsBare
    BY DEF WgInv, WgTypeOK, Link, ConfiguredIsHeld, Bare, ResidueIsBare, Residue
  <1> QED BY <1>1, WgInvariant, PTL

\* status never tells the owner of an interface that is up that it is down.
THEOREM StatusAlwaysAgrees == Spec => []StatusNeverContradicts
  <1>1. WgInv => StatusNeverContradicts
    BY DEF WgInv
  <1> QED BY <1>1, WgInvariant, PTL
=============================================================================
