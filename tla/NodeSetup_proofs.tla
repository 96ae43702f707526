--------------------------- MODULE NodeSetup_proofs ---------------------------
(***************************************************************************)
(* Proofs about NodeSetup, for any commands, any keys and any number of    *)
(* failures and crashes.                                                   *)
(***************************************************************************)
EXTENDS NodeSetup, FiniteSetTheorems, TLAPS

(***************************************************************************)
(* The wallet.  Whoever is past the opening of the datastore holds its     *)
(* lock, so no command sees what another one is in the middle of.          *)
(***************************************************************************)
Inside == {"list", "new", "default", "client"} \cup MakingWallet

Typed ==
  /\ default \in Keys \cup {Absent, Torn} /\ wallet \in [Keys -> Keys \cup {Absent, Torn}]
  /\ pc \in [Commands -> Inside \cup {"off", "peer", "makePeer", "fillPeer", "open",
                                      "noWallet"}]
  /\ key \in [Commands -> Keys \cup {None}] /\ addr \in [Commands -> Keys \cup {None}]
  /\ generated \subseteq Keys /\ clients \subseteq Keys

Locked == \A c \in Commands : pc[c] \in Inside => lock = c

\* Every key with a file was generated, so a new one has none.
Known == \A k \in Keys : wallet[k] # Absent => k \in generated

\* The default key is saved under its address, and it is the one clients use.
Saved ==
  /\ default \in Keys => wallet[default] = default
  /\ \A a \in clients : a = default
  /\ \A c \in Commands : pc[c] = "client" => addr[c] = default /\ default \in Keys

\* What the command that makes the wallet has done so far.
Making ==
  \A c \in Commands :
    /\ pc[c] \in MakingWallet => key[c] \in Keys /\ wallet[key[c]] # Absent
    /\ pc[c] \in MakingWallet \ {"fillKey"} => wallet[key[c]] = key[c]
    /\ pc[c] \in {"new"} \cup (MakingWallet \ {"fillDefault"}) => default = Absent
    /\ pc[c] = "fillDefault" => default = Torn
    /\ pc[c] = "default" => Addresses # {}

\* A wallet without a default key has an excuse.
Excused ==
  /\ default = Torn => Addresses # {}
  /\ default \notin Keys /\ Addresses # {} =>
       cut \/ early \/ \E c \in Commands : pc[c] \in MakingWallet

\* A wallet that was found unusable stays so: nobody makes another one.
Unusable ==
  \A c \in Commands : pc[c] = "noWallet" =>
    /\ default \notin Keys /\ Addresses # {} /\ (cut \/ early)
    /\ \A d \in Commands : pc[d] \notin MakingWallet \cup {"new"}

WInv == Typed /\ Locked /\ Known /\ Saved /\ Making /\ Excused /\ Unusable

\* A directory that no command has touched.
LEMMA WalletInit == Init => WInv
  BY FilesAssumption
     DEF Init, WInv, Typed, Locked, Known, Saved, Making, Excused, Unusable, Inside,
         MakingWallet, Addresses

\* The steps before the datastore is open, and those that end a command, leave the
\* wallet alone.
LEMMA WalletUntouched ==
  ASSUME WInv, NEW c \in Commands,
         Start(c) \/ ReadPeerKey(c) \/ MakePeerKey(c) \/ FillPeerKey(c)
           \/ OpenDatastore(c) \/ Quit(c) \/ Stopped(c)
  PROVE  WInv'
<1> USE FilesAssumption DEF WInv, Inside, MakingWallet, Addresses, Goto, Leave, Complete,
        Generate, files, history, events
<1>1. CASE Start(c)
  BY <1>1 DEF Start, Typed, Locked, Known, Saved, Making, Excused, Unusable
<1>2. CASE ReadPeerKey(c)
  BY <1>2 DEF ReadPeerKey, Typed, Locked, Known, Saved, Making, Excused, Unusable
<1>3. CASE MakePeerKey(c)
  BY <1>3 DEF MakePeerKey, Typed, Locked, Known, Saved, Making, Excused, Unusable
<1>4. CASE FillPeerKey(c)
  BY <1>4 DEF FillPeerKey, Typed, Locked, Known, Saved, Making, Excused, Unusable
<1>5. CASE OpenDatastore(c)
  BY <1>5 DEF OpenDatastore, Typed, Locked, Known, Saved, Making, Excused, Unusable
<1>6. CASE Quit(c)
  BY <1>6 DEF Quit, Typed, Locked, Known, Saved, Making, Excused, Unusable
<1>7. CASE Stopped(c)
  BY ZenonT(60), <1>7 DEF Stopped, Typed, Locked, Known, Saved, Making, Excused, Unusable
<1> QED
  BY <1>1, <1>2, <1>3, <1>4, <1>5, <1>6, <1>7

\* The steps of setupWallet that make a wallet.
LEMMA WalletStep ==
  ASSUME WInv, NEW c \in Commands,
         ListKeys(c) \/ WalletNew(c) \/ FillKey(c) \/ FindDefault(c) \/ CheckDefault(c)
           \/ MakeDefault(c) \/ FillDefault(c) \/ GetDefault(c)
  PROVE  WInv'
<1> USE FilesAssumption DEF WInv, Inside, MakingWallet, Addresses, Goto, Leave, Complete,
        Generate, files, history, events
<1>1. CASE ListKeys(c)
  BY <1>1 DEF ListKeys, Typed, Locked, Known, Saved, Making, Excused, Unusable
<1>2. CASE WalletNew(c)
  BY <1>2 DEF WalletNew, Typed, Locked, Known, Saved, Making, Excused, Unusable
<1>3. CASE FillKey(c)
  BY <1>3 DEF FillKey, Typed, Locked, Known, Saved, Making, Excused, Unusable
<1>4. CASE FindDefault(c)
  BY <1>4 DEF FindDefault, Typed, Locked, Known, Saved, Making, Excused, Unusable
<1>5. CASE CheckDefault(c)
  BY <1>5 DEF CheckDefault, Typed, Locked, Known, Saved, Making, Excused, Unusable
<1>6. CASE MakeDefault(c)
  BY <1>6 DEF MakeDefault, Typed, Locked, Known, Saved, Making, Excused, Unusable
<1>7. CASE FillDefault(c)
  BY <1>7 DEF FillDefault, Typed, Locked, Known, Saved, Making, Excused, Unusable
<1>8. CASE GetDefault(c)
  BY <1>8 DEF GetDefault, Typed, Locked, Known, Saved, Making, Excused, Unusable
<1> QED
  BY <1>1, <1>2, <1>3, <1>4, <1>5, <1>6, <1>7, <1>8

\* A key the user adds.
LEMMA WalletPlaced ==
  ASSUME WInv, NEW k \in Keys, PlaceKey(k)
  PROVE  WInv'
<1> USE FilesAssumption DEF PlaceKey, WInv, Generate, running, Typed
<1>1. wallet[k] = Absent /\ wallet'[k] = k /\ \A i \in Keys \ {k} : wallet'[i] = wallet[i]
  BY DEF Known
<1>2. UNCHANGED <<default, lock, pc, key, addr, clients, cut>>
  OBVIOUS
<1>3. early => early'
  OBVIOUS
<1>4. default = Absent => early'
  OBVIOUS
<1>5. Typed' /\ Locked' /\ Known'
  BY <1>1, <1>2 DEF Locked, Known, Inside, MakingWallet
<1>6. Saved'
  BY <1>1, <1>2 DEF Saved
<1>7. Addresses' = Addresses \cup {k}
  BY <1>1 DEF Addresses
<1>8. Making'
  BY <1>1, <1>2, <1>7 DEF Making, MakingWallet
<1>9. Excused'
  BY <1>2, <1>3, <1>4, <1>7 DEF Excused
<1>10. Unusable'
  BY <1>2, <1>3, <1>7 DEF Unusable
<1> QED
  BY <1>5, <1>6, <1>8, <1>9, <1>10

\* Every step of every command, failures and crashes included, keeps the invariant of the
\* wallet: nobody sees what the holder of the datastore's lock is in the middle of.
THEOREM WalletInvariant == Spec => []WInv
<1>1. WInv /\ [Next]_vars => WInv'
  <2> SUFFICES ASSUME WInv, [Next]_vars PROVE WInv'
    OBVIOUS
  <2>1. CASE UNCHANGED vars
    BY <2>1 DEF vars, files, running, history, events, WInv, Typed, Locked, Known, Saved,
                Making, Excused, Unusable, Addresses
  <2> QED
    BY <2>1, WalletUntouched, WalletStep, WalletPlaced DEF Next, Setup
<1> QED
  BY <1>1, WalletInit, PTL DEF Spec

\* All clients over one data directory act for one address, whose key is on disk.
THEOREM OneAddressHolds == Spec => []OneAddress
<1>1. WInv => OneAddress
  <2> SUFFICES ASSUME WInv PROVE OneAddress
    OBVIOUS
  <2>1. Cardinality(clients) <= 1
    <3>1. clients = {} \/ clients = {default}
      BY DEF WInv, Saved
    <3>2. Cardinality({}) = 0 /\ Cardinality({default}) = 1
      BY FS_EmptySet, FS_Singleton
    <3>3. (clients = {} => Cardinality(clients) = 0)
            /\ (clients = {default} => Cardinality(clients) = 1)
      BY <3>2, Zenon
    <3> QED
      BY <3>1, <3>3
  <2>2. \A c \in Commands : pc[c] = "client" => wallet[addr[c]] = addr[c]
    BY DEF WInv, Saved
  <2> QED
    BY <2>1, <2>2 DEF OneAddress
<1> QED
  BY <1>1, WalletInvariant, PTL

\* A wallet is unusable only before any client has run, and for one of two reasons.
THEOREM WalletIsUsableHolds == Spec => []WalletIsUsable
<1>1. WInv => WalletIsUsable
  BY DEF WInv, Typed, Saved, Unusable, WalletIsUsable
<1> QED
  BY <1>1, WalletInvariant, PTL

(***************************************************************************)
(* The identity.  Unless two commands make a peer key at the same time,    *)
(* the file is absent until the one that makes it truncates it, and holds  *)
(* the key for good once it is filled.                                     *)
(***************************************************************************)
Peers ==
  ~raced =>
    /\ \A c, d \in Makers : c = d
    /\ \A c \in Commands :
         /\ pc[c] = "makePeer" => peerFile = Absent
         /\ pc[c] = "fillPeer" => peerFile = Torn
         /\ pc[c] = "open" => peerFile \in Keys /\ peer[c] = peerFile
    /\ hosts # {} => peerFile \in Keys
    /\ \A k \in hosts : k = peerFile

PeerTyped ==
  /\ peerFile \in Keys \cup {Absent, Torn} /\ raced \in BOOLEAN
  /\ \A c \in Commands : pc[c] = "fillPeer" => peer[c] \in Keys
  /\ peer \in [Commands -> Keys \cup {None}]
  /\ pc \in [Commands -> Inside \cup {"off", "peer", "makePeer", "fillPeer", "open",
                                      "noWallet"}]

PInv == PeerTyped /\ Peers

\* Unless two first runs overlap, all commands have one identity.
THEOREM OneIdentityHolds == Spec => []OneIdentity
<1>1. Init => PInv
  BY DEF Init, PInv, PeerTyped, Peers, Makers, Inside, MakingWallet
<1>2. PInv /\ [Next]_vars => PInv'
  <2> SUFFICES ASSUME PInv, [Next]_vars PROVE PInv'
    OBVIOUS
  <2> USE FilesAssumption DEF PInv, PeerTyped, Inside, MakingWallet, Makers, Goto, Leave,
          Complete, files, history, events, running
  <2>1. ASSUME NEW c \in Commands, Start(c) PROVE PInv'
    BY <2>1 DEF Start, Peers
  <2>2. ASSUME NEW c \in Commands, ReadPeerKey(c) PROVE PInv'
    <3>1. CASE peerFile = Torn
      BY <2>2, <3>1 DEF ReadPeerKey, Peers
    <3>2. CASE peerFile \in Keys
      BY <2>2, <3>2 DEF ReadPeerKey, Peers
    <3>3. CASE peerFile = Absent /\ Makers # {}
      <4>1. raced'
        BY <2>2, <3>3 DEF ReadPeerKey
      <4>2. PeerTyped'
        BY <2>2, <3>3 DEF ReadPeerKey
      <4> QED
        BY <4>1, <4>2 DEF Peers
    <3>4. CASE peerFile = Absent /\ Makers = {}
      BY <2>2, <3>4 DEF ReadPeerKey, Peers
    <3> QED
      BY <3>1, <3>2, <3>3, <3>4
  <2>3. ASSUME NEW c \in Commands, MakePeerKey(c) PROVE PInv'
    BY <2>3 DEF MakePeerKey, Peers, Generate
  <2>4. ASSUME NEW c \in Commands, FillPeerKey(c) PROVE PInv'
    BY <2>4 DEF FillPeerKey, Peers
  <2>5. ASSUME NEW c \in Commands, OpenDatastore(c) PROVE PInv'
    BY <2>5 DEF OpenDatastore, Peers
  <2>6. ASSUME NEW c \in Commands,
               \/ ListKeys(c) \/ WalletNew(c) \/ FillKey(c) \/ FindDefault(c)
               \/ CheckDefault(c) \/ MakeDefault(c) \/ FillDefault(c) \/ GetDefault(c)
        PROVE  PInv'
    BY <2>6 DEF ListKeys, WalletNew, FillKey, FindDefault, CheckDefault, MakeDefault,
                FillDefault, GetDefault, Peers
  <2>7. ASSUME NEW c \in Commands, Quit(c) \/ Stopped(c) PROVE PInv'
    BY <2>7 DEF Quit, Stopped, Peers
  <2>8. ASSUME NEW k \in Keys, PlaceKey(k) PROVE PInv'
    BY <2>8 DEF PlaceKey, Peers
  <2>9. CASE UNCHANGED vars
    BY <2>9 DEF vars, Peers
  <2> QED
    BY <2>1, <2>2, <2>3, <2>4, <2>5, <2>6, <2>7, <2>8, <2>9 DEF Next, Setup
<1>3. PInv => OneIdentity
  <2> SUFFICES ASSUME PInv, ~raced PROVE Cardinality(hosts) <= 1
    BY DEF OneIdentity
  <2>1. hosts = {} \/ hosts = {peerFile}
    BY DEF PInv, Peers
  <2>2. Cardinality({}) = 0 /\ Cardinality({peerFile}) = 1
    BY FS_EmptySet, FS_Singleton
  <2>3. (hosts = {} => Cardinality(hosts) = 0)
          /\ (hosts = {peerFile} => Cardinality(hosts) = 1)
    BY <2>2, Zenon
  <2> QED
    BY <2>1, <2>3
<1> QED
  BY <1>1, <1>2, <1>3, PTL DEF Spec
=============================================================================
