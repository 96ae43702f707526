------------------------------ MODULE NodeSetup ------------------------------
(***************************************************************************)
(* How a filc command sets up its node (filc/disk.go: setup,               *)
(* loadOrInitPeerKey, setupWallet, clientFromNode) over the key store on   *)
(* disk (keystore/keystore.go).                                            *)
(*                                                                         *)
(* The first command makes a peer key, and a wallet key under two names:   *)
(* its address and "default".  Every file is written in two steps, first   *)
(* truncated and then filled, and a command may fail or die between any    *)
(* two steps.  Several commands may run over one data directory; what      *)
(* keeps them apart is the lock that levelds.NewDatastore takes, after the *)
(* peer key and before the wallet.                                         *)
(***************************************************************************)
EXTENDS Naturals, FiniteSets

CONSTANTS
  Commands,  \* the filc commands that run over the directory, one after
             \* another or together
  Keys,      \* what key generation may return, peer keys and wallet keys
  Absent,    \* there is no such file
  Torn,      \* the file holds nothing, or the beginning of a key
  None,      \* a command without the value
  MaxStops   \* bound: how many steps fail or are cut off by a crash

ASSUME FilesAssumption ==
  /\ Absent \notin Keys /\ Torn \notin Keys /\ None \notin Keys
  /\ Absent # Torn /\ None \notin Commands

ASSUME StopsAssumption == MaxStops \in Nat

VARIABLES
  peerFile,   \* the file of the peer key
  wallet,     \* the files "wallet-<address>"; an address is named by its key
  default,    \* the file "default"
  lock,       \* the command that has the datastore open
  pc,         \* place of each command
  peer,       \* the peer key it uses
  key,        \* the wallet key it has generated
  addr,       \* the address its client acts for
  generated,  \* history: the keys generated so far
  hosts,      \* history: the peer keys commands have come up with
  clients,    \* history: the addresses clients have acted for
  raced,      \* history: two commands found no peer key and both make one
  cut,        \* history: a command ended in the middle of making the wallet
  early,      \* history: the user put a key into the wallet directory before
              \* there was a default one
  stops       \* how many steps have failed or crashed

files   == <<peerFile, wallet, default>>
running == <<lock, pc, peer, key, addr>>
events  == <<raced, cut, early, stops>>
history == <<generated, hosts, clients, events>>
vars    == <<files, running, history>>

Init ==
  /\ peerFile = Absent /\ wallet = [k \in Keys |-> Absent] /\ default = Absent
  /\ lock = None /\ pc = [c \in Commands |-> "off"]
  /\ peer = [c \in Commands |-> None] /\ key = [c \in Commands |-> None]
  /\ addr = [c \in Commands |-> None]
  /\ generated = {} /\ hosts = {} /\ clients = {}
  /\ raced = FALSE /\ cut = FALSE /\ early = FALSE /\ stops = 0

Goto(c, place) == pc' = [pc EXCEPT ![c] = place]

Complete(file) == file \in Keys

\* The command ends, and its datastore is closed.
Leave(c, place) ==
  /\ Goto(c, place)
  /\ lock' = IF lock = c THEN None ELSE lock
  /\ peer' = [peer EXCEPT ![c] = None] /\ key' = [key EXCEPT ![c] = None]
  /\ addr' = [addr EXCEPT ![c] = None]

\* Keys are random: a new one was never seen before.
Generate(k) == k \notin generated /\ generated' = generated \cup {k}

-----------------------------------------------------------------------------
(* setup, up to the wallet. *)

Start(c) ==
  /\ pc[c] = "off"
  /\ Goto(c, "peer")
  /\ UNCHANGED <<files, lock, peer, key, addr, history>>

Makers == {c \in Commands : pc[c] \in {"makePeer", "fillPeer"}}

\* Deviation: a file that is no key is replaced like one that is missing.
ReadPeerKeyOrReplace(c) ==
  /\ pc[c] = "peer"
  /\ peer' = [peer EXCEPT ![c] = IF Complete(peerFile) THEN peerFile ELSE None]
  /\ Goto(c, IF Complete(peerFile) THEN "open" ELSE "makePeer")
  /\ raced' = (raced \/ (peerFile = Absent /\ Makers # {}))
  /\ UNCHANGED <<lock, key, addr, files, generated, hosts, clients, cut, early, stops>>

\* loadOrInitPeerKey reads the file; one that is no key is an error.
ReadPeerKey(c) ==
  /\ pc[c] = "peer"
  /\ IF peerFile = Torn
     THEN Leave(c, "off")
     ELSE /\ peer' = [peer EXCEPT ![c] = IF Complete(peerFile) THEN peerFile ELSE None]
          /\ Goto(c, IF peerFile = Absent THEN "makePeer" ELSE "open")
          /\ UNCHANGED <<lock, key, addr>>
  /\ raced' = (raced \/ (peerFile = Absent /\ Makers # {}))
  /\ UNCHANGED <<files, generated, hosts, clients, cut, early, stops>>

MakePeerKey(c) ==
  /\ pc[c] = "makePeer"
  /\ \E k \in Keys : Generate(k) /\ peer' = [peer EXCEPT ![c] = k]
  /\ peerFile' = Torn
  /\ Goto(c, "fillPeer")
  /\ UNCHANGED <<wallet, default, lock, key, addr, hosts, clients, events>>

FillPeerKey(c) ==
  /\ pc[c] = "fillPeer"
  /\ peerFile' = peer[c]
  /\ Goto(c, "open")
  /\ UNCHANGED <<wallet, default, lock, peer, key, addr, history>>

\* Deviation: the datastore can be opened twice.
OpenUnlocked(c) ==
  /\ pc[c] = "open"
  /\ hosts' = hosts \cup {peer[c]}
  /\ Goto(c, "list") /\ lock' = c
  /\ UNCHANGED <<files, peer, key, addr, generated, clients, events>>

\* The libp2p host comes up with the peer key; then the blockstore and the datastore
\* are opened, the latter by one process at a time.
OpenDatastore(c) ==
  /\ pc[c] = "open"
  /\ hosts' = hosts \cup {peer[c]}
  /\ IF lock = None
     THEN Goto(c, "list") /\ lock' = c /\ UNCHANGED <<peer, key, addr>>
     ELSE Leave(c, "off")
  /\ UNCHANGED <<files, generated, clients, events>>

-----------------------------------------------------------------------------
(* setupWallet: OpenOrInitKeystore makes the directory, and the wallet, which *)
(* is lotus's, makes a key when the directory lists none.                     *)

Addresses == {k \in Keys : wallet[k] # Absent}

\* List goes by the names of the files and opens none.
ListKeys(c) ==
  /\ pc[c] = "list"
  /\ Goto(c, IF Addresses = {} THEN "new" ELSE "default")
  /\ UNCHANGED <<files, lock, peer, key, addr, history>>

\* Deviation: the key is made the default one and not saved under its address.
WalletNewDefaultOnly(c) ==
  /\ pc[c] = "new"
  /\ \E k \in Keys : Generate(k) /\ key' = [key EXCEPT ![c] = k]
  /\ Goto(c, "getDefault")
  /\ UNCHANGED <<files, lock, peer, addr, hosts, clients, events>>

\* WalletNew begins with the Put of the key under its address, a name that is not
\* taken.
WalletNew(c) ==
  /\ pc[c] = "new"
  /\ \E k \in Keys : /\ Generate(k) /\ key' = [key EXCEPT ![c] = k]
                     /\ wallet' = [wallet EXCEPT ![k] = Torn]
  /\ Goto(c, "fillKey")
  /\ UNCHANGED <<peerFile, default, lock, peer, addr, hosts, clients, events>>

FillKey(c) ==
  /\ pc[c] = "fillKey"
  /\ wallet' = [wallet EXCEPT ![key[c]] = key[c]]
  /\ Goto(c, "getDefault")
  /\ UNCHANGED <<peerFile, default, lock, peer, key, addr, history>>

\* WalletNew goes on with Get of the default key, and Put if it is not there.  A file
\* that is no key is an error of Get.
FindDefault(c) ==
  /\ pc[c] = "getDefault"
  /\ IF default = Torn
     THEN Leave(c, "off")
     ELSE /\ Goto(c, IF default = Absent THEN "checkDefault" ELSE "default")
          /\ UNCHANGED <<lock, peer, key, addr>>
  /\ UNCHANGED <<files, history>>

\* Put looks whether the file exists, which is an error, and writes it in a second step.
CheckDefault(c) ==
  /\ pc[c] = "checkDefault"
  /\ IF default = Absent
     THEN Goto(c, "makeDefault") /\ UNCHANGED <<lock, peer, key, addr>>
     ELSE Leave(c, "off")
  /\ UNCHANGED <<files, history>>

MakeDefault(c) ==
  /\ pc[c] = "makeDefault"
  /\ default' = Torn
  /\ Goto(c, "fillDefault")
  /\ UNCHANGED <<peerFile, wallet, lock, peer, key, addr, history>>

FillDefault(c) ==
  /\ pc[c] = "fillDefault"
  /\ default' = key[c]
  /\ Goto(c, "default")
  /\ UNCHANGED <<peerFile, wallet, lock, peer, key, addr, history>>

\* clientFromNode: GetDefault, and a client for its address.
GetDefault(c) ==
  /\ pc[c] = "default"
  /\ IF Complete(default)
     THEN /\ Goto(c, "client") /\ addr' = [addr EXCEPT ![c] = default]
          /\ clients' = clients \cup {default}
          /\ UNCHANGED <<lock, peer, key>>
     ELSE Leave(c, "noWallet") /\ UNCHANGED clients
  /\ UNCHANGED <<files, generated, hosts, events>>

-----------------------------------------------------------------------------
(* The ends of a command, and the user. *)

Quit(c) ==
  /\ pc[c] \in {"client", "noWallet"}
  /\ Leave(c, "off")
  /\ UNCHANGED <<files, history>>

MakingWallet ==
  {"fillKey", "getDefault", "checkDefault", "makeDefault", "fillDefault"}

\* A step fails, or the process dies; the datastore's lock goes with it.
Stopped(c) ==
  /\ pc[c] # "off" /\ stops < MaxStops
  /\ stops' = stops + 1
  /\ Leave(c, "off")
  /\ cut' = (cut \/ pc[c] \in MakingWallet)
  /\ UNCHANGED <<files, generated, hosts, clients, raced, early>>

\* How many keys the commands may still generate.
KeysToCome ==
  Cardinality(IF peerFile = Absent THEN Commands ELSE {c \in Commands : pc[c] = "makePeer"})
    + (IF Addresses = {} THEN 1 ELSE Cardinality({c \in Commands : pc[c] = "new"}))

\* The user puts the file of a key of theirs into the wallet directory, as filc's README
\* suggests, before or after there is a default one.  Bound: the commands are left the
\* keys they may still generate.
PlaceKey(k) ==
  /\ Cardinality(Keys \ generated) > KeysToCome
  /\ Generate(k)
  /\ wallet' = [wallet EXCEPT ![k] = k]
  /\ early' = (early \/ default = Absent)
  /\ UNCHANGED <<peerFile, default, running, hosts, clients, raced, cut, stops>>

Setup(c) ==
  \/ Start(c) \/ ReadPeerKey(c) \/ MakePeerKey(c) \/ FillPeerKey(c) \/ OpenDatastore(c)
  \/ ListKeys(c) \/ WalletNew(c) \/ FillKey(c) \/ FindDefault(c) \/ CheckDefault(c)
  \/ MakeDefault(c) \/ FillDefault(c) \/ GetDefault(c)

Next ==
  \/ \E c \in Commands : Setup(c) \/ Quit(c) \/ Stopped(c)
  \/ \E k \in Keys : PlaceKey(k)

Spec == Init /\ [][Next]_vars

-----------------------------------------------------------------------------
(* Properties. *)

\* Every variable keeps to its values, and whoever is past the datastore's opening
\* holds its lock.
TypeOK ==
  /\ peerFile \in Keys \cup {Absent, Torn} /\ default \in Keys \cup {Absent, Torn}
  /\ wallet \in [Keys -> Keys \cup {Absent, Torn}]
  /\ lock \in Commands \cup {None}
  /\ pc \in [Commands -> {"off", "peer", "makePeer", "fillPeer", "open", "list", "new",
                          "default", "client", "noWallet"} \cup MakingWallet]
  /\ \A c \in Commands :
        pc[c] \in {"list", "new", "default", "client"} \cup MakingWallet => lock = c
  /\ {peer, key, addr} \subseteq [Commands -> Keys \cup {None}]
  /\ generated \subseteq Keys /\ hosts \subseteq Keys /\ clients \subseteq Keys
  /\ {raced, cut, early} \subseteq BOOLEAN /\ stops \in 0..MaxStops

\* All the clients there ever are over one data directory act for one address, and
\* the key that signs for it is on disk in full: through commands that overlap, die
\* half way or fail, and whatever the user adds to the directory.
OneAddress ==
  /\ Cardinality(clients) <= 1
  /\ \A c \in Commands : pc[c] = "client" => wallet[addr[c]] = addr[c]

\* A command finds the wallet unusable only before any client has run, and only if
\* one was cut off while it made the wallet or the user was there first: the wallet
\* that another command is making is never seen half made.
WalletIsUsable ==
  \A c \in Commands : pc[c] = "noWallet" => clients = {} /\ (cut \/ early)

\* Unless two first runs overlap and both make a peer key, all commands have one
\* identity on the network, also after failures and crashes.
OneIdentity == ~raced => Cardinality(hosts) <= 1
=============================================================================
