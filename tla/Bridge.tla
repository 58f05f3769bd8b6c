---------------------------------- MODULE Bridge ----------------------------------
(***************************************************************************)
(* The WebSocket bridges (tools/ws_bridge.go, tools/ws_bridge_public,       *)
(* tools/ws_bridge.py). A connection is a WebSocket to the browser and a    *)
(* TCP connection to the daemon with a pump for each direction, each        *)
(* blocking on its reads and its writes; they learn of one another's end    *)
(* only through the sockets they close. The public bridge counts the        *)
(* connections it admits, in all and for each address.                      *)
(***************************************************************************)
EXTENDS Naturals, FiniteSets

CONSTANTS
  Conns,     \* connections
  AddressOf, \* the client address of each
  MaxConns,  \* -max-conns
  MaxPerIP   \* -max-conns-per-ip

ASSUME BridgeAssumption == MaxConns \in Nat \ {0} /\ MaxPerIP \in Nat \ {0}

VARIABLES
  program,  \* which bridge runs
  place,    \* where the handler of each connection is
  curConns, \* curConns
  perIP,    \* perIP
  wsOpen,   \* connections whose WebSocket we have not closed
  tcpOpen,  \* connections whose TCP side we have not closed
  browser,  \* the other end of each WebSocket
  daemon,   \* the other end of each TCP connection
  up,       \* the pump from the WebSocket to TCP
  down      \* the pump from TCP to the WebSocket

bridgeVars == <<program, place, curConns, perIP, wsOpen, tcpOpen, browser, daemon, up, down>>

Addresses == {AddressOf[c] : c \in Conns}

BridgeInit ==
  /\ program \in {"local", "public", "python"}
  /\ place = [c \in Conns |-> "no"]
  /\ curConns = 0 /\ perIP = [a \in Addresses |-> 0]
  /\ wsOpen = {} /\ tcpOpen = {}
  /\ browser = [c \in Conns |-> "there"] /\ daemon = [c \in Conns |-> "there"]
  /\ up = [c \in Conns |-> "no"] /\ down = [c \in Conns |-> "no"]

countVars == <<program, curConns, perIP>>
endVars == <<browser, daemon>>
pumpVars == <<up, down>>
socketVars == <<wsOpen, tcpOpen, endVars, pumpVars>>

Goes(c, from, to) == place[c] = from /\ place' = [place EXCEPT ![c] = to]

-----------------------------------------------------------------------------
(* handleBridge: admission. The public bridge counts first; one too many is *)
(* counted until it has been refused.                                       *)

OverCap(n) == n > MaxConns

ConnArrives(c) ==
  IF program = "public"
    THEN /\ curConns' = curConns + 1
         /\ Goes(c, "no", IF OverCap(curConns + 1) THEN "refused" ELSE "under cap")
         /\ UNCHANGED <<program, perIP, socketVars>>
    ELSE /\ Goes(c, "no", "admitted")
         /\ UNCHANGED <<countVars, socketVars>>

ConnRefused(c) ==
  /\ Goes(c, "refused", "gone")
  /\ curConns' = curConns - 1
  /\ UNCHANGED <<program, perIP, socketVars>>

(* ipAcquire.                                                               *)
IpAcquired(c) ==
  IF perIP[AddressOf[c]] >= MaxPerIP
    THEN /\ Goes(c, "under cap", "refused")
         /\ UNCHANGED <<countVars, socketVars>>
    ELSE /\ Goes(c, "under cap", "admitted")
         /\ perIP' = [perIP EXCEPT ![AddressOf[c]] = @ + 1]
         /\ UNCHANGED <<program, curConns, socketVars>>

(* What the deferred calls undo: both counts, both sockets.                 *)
Released(c) ==
  /\ IF program = "public"
       THEN /\ curConns' = curConns - 1
            /\ perIP' = [perIP EXCEPT ![AddressOf[c]] = @ - 1]
       ELSE UNCHANGED <<curConns, perIP>>
  /\ wsOpen' = wsOpen \ {c} /\ tcpOpen' = tcpOpen \ {c}
  /\ UNCHANGED <<program, endVars, pumpVars>>

(* The upgrade fails, or the daemon cannot be reached.                      *)
DialFails(c) == Goes(c, "admitted", "gone") /\ Released(c)

Dialled(c) ==
  /\ Goes(c, "admitted", "bridged")
  /\ wsOpen' = wsOpen \cup {c} /\ tcpOpen' = tcpOpen \cup {c}
  /\ up' = [up EXCEPT ![c] = "reading"] /\ down' = [down EXCEPT ![c] = "reading"]
  /\ UNCHANGED <<countVars, endVars>>

-----------------------------------------------------------------------------
(* The pump from the WebSocket to TCP.                                      *)

Moves(pump, c, from, to) == pump[c] = from /\ pump' = [pump EXCEPT ![c] = to]

BrowserSends(c) ==
  /\ browser[c] = "there" /\ c \in wsOpen
  /\ Moves(up, c, "reading", "writing")
  /\ UNCHANGED <<countVars, place, wsOpen, tcpOpen, endVars, down>>

ReadKeepsTcp(c) == UNCHANGED tcpOpen

ReadClosesTcp(c) == tcpOpen' = tcpOpen \ {c}

UpReadFails(c) ==
  /\ browser[c] = "gone" \/ c \notin wsOpen
  /\ Moves(up, c, "reading", "ended")
  /\ ReadClosesTcp(c)
  /\ UNCHANGED <<countVars, place, wsOpen, endVars, down>>

UpWritten(c) ==
  /\ daemon[c] # "gone" /\ c \in tcpOpen
  /\ Moves(up, c, "writing", "reading")
  /\ UNCHANGED <<countVars, place, wsOpen, tcpOpen, endVars, down>>

(* The Go bridges leave it to the other pump to find out.                   *)
UpWriteFails(c) ==
  /\ daemon[c] = "gone" \/ c \notin tcpOpen
  /\ Moves(up, c, "writing", "ended")
  /\ tcpOpen' = IF program = "python" THEN tcpOpen \ {c} ELSE tcpOpen
  /\ UNCHANGED <<countVars, place, wsOpen, endVars, down>>

(* The cap on bytes, after a write of either pump, and the idle watchdog.   *)
ClosedByLimit(c) ==
  /\ program = "public" /\ place[c] = "bridged"
  /\ wsOpen' = wsOpen \ {c} /\ tcpOpen' = tcpOpen \ {c}
  /\ \/ Moves(up, c, "writing", "ended")
     \/ UNCHANGED up
  /\ UNCHANGED <<countVars, place, endVars, down>>

-----------------------------------------------------------------------------
(* The pump from TCP to the WebSocket, which in Go is the handler itself:   *)
(* after its loop it closes the WebSocket, in the public bridge the TCP     *)
(* side too, and waits for the other pump.                                  *)

DaemonSends(c) ==
  /\ daemon[c] = "there" /\ c \in tcpOpen
  /\ Moves(down, c, "reading", "writing")
  /\ UNCHANGED <<countVars, place, wsOpen, tcpOpen, endVars, up>>

DownWritten(c) ==
  /\ browser[c] = "there" /\ c \in wsOpen
  /\ Moves(down, c, "writing", "reading")
  /\ UNCHANGED <<countVars, place, wsOpen, tcpOpen, endVars, up>>

DownEnds(c) ==
  /\ \/ down[c] = "reading" /\ (daemon[c] # "there" \/ c \notin tcpOpen)
     \/ down[c] = "writing" /\ (browser[c] = "gone" \/ c \notin wsOpen)
  /\ down' = [down EXCEPT ![c] = "ended"]
  /\ wsOpen' = IF program = "python" THEN wsOpen ELSE wsOpen \ {c}
  /\ tcpOpen' = IF program = "public" THEN tcpOpen \ {c} ELSE tcpOpen
  /\ UNCHANGED <<countVars, place, endVars, up>>

(* Both pumps have ended.                                                   *)
HandlerReturns(c) ==
  /\ up[c] = "ended" /\ down[c] = "ended"
  /\ Goes(c, "bridged", "gone")
  /\ Released(c)

-----------------------------------------------------------------------------
(* The two ends. A daemon may close its sending side alone.                 *)

BrowserLeaves(c) ==
  /\ place[c] = "bridged" /\ browser[c] = "there"
  /\ browser' = [browser EXCEPT ![c] = "gone"]
  /\ UNCHANGED <<countVars, place, wsOpen, tcpOpen, daemon, pumpVars>>

DaemonLeaves(c) ==
  /\ place[c] = "bridged"
  /\ \/ daemon[c] = "there" /\ daemon' = [daemon EXCEPT ![c] = "eof"]
     \/ daemon[c] # "gone" /\ daemon' = [daemon EXCEPT ![c] = "gone"]
  /\ UNCHANGED <<countVars, place, wsOpen, tcpOpen, browser, pumpVars>>

BridgeStep(c) ==
  \/ ConnArrives(c) \/ ConnRefused(c) \/ IpAcquired(c) \/ DialFails(c) \/ Dialled(c)
  \/ BrowserSends(c) \/ UpReadFails(c) \/ UpWritten(c) \/ UpWriteFails(c) \/ ClosedByLimit(c)
  \/ DaemonSends(c) \/ DownWritten(c) \/ DownEnds(c) \/ HandlerReturns(c)
  \/ BrowserLeaves(c) \/ DaemonLeaves(c)

BridgeNext == \E c \in Conns : BridgeStep(c)

(* A read or write that can fail does, and the handler goes on; the ends    *)
(* owe nothing, not even to read.                                           *)
BridgeGoesOn(c) ==
  \/ ConnRefused(c) \/ IpAcquired(c) \/ DialFails(c)
  \/ UpReadFails(c) \/ UpWriteFails(c) \/ DownEnds(c) \/ HandlerReturns(c)

BridgeSpec == BridgeInit /\ [][BridgeNext]_bridgeVars

BridgeFairSpec == BridgeSpec /\ \A c \in Conns : WF_bridgeVars(BridgeGoesOn(c))

-----------------------------------------------------------------------------
(* Properties.                                                              *)

Using(places) == {c \in Conns : place[c] \in places}

(* Well typed; the public bridge counts exactly the connections that hold a *)
(* slot, so that no more than the caps allow are admitted, in all and for   *)
(* an address (handleBridge, ipAcquire, ipRelease).                         *)
BridgeTypeOK ==
  /\ program \in {"local", "public", "python"}
  /\ place \in [Conns -> {"no", "refused", "under cap", "admitted", "bridged", "gone"}]
  /\ wsOpen \cup tcpOpen \subseteq Using({"bridged"})
  /\ browser \in [Conns -> {"there", "gone"}] /\ daemon \in [Conns -> {"there", "eof", "gone"}]
  /\ {up[c] : c \in Conns} \cup {down[c] : c \in Conns} \subseteq {"no", "reading", "writing", "ended"}
  /\ program = "public" =>
       /\ curConns = Cardinality(Using({"refused", "under cap", "admitted", "bridged"}))
       /\ Cardinality(Using({"under cap", "admitted", "bridged"})) <= MaxConns
       /\ \A a \in Addresses :
            /\ perIP[a] = Cardinality({c \in Using({"admitted", "bridged"}) : AddressOf[c] = a})
            /\ perIP[a] <= MaxPerIP

(* A connection held open by one of its ends: a write that end does not     *)
(* read, which the public bridge alone cuts short, by closing the TCP side, *)
(* when the daemon has closed its own; and in Python a browser that is not  *)
(* told the daemon has left.                                                *)
HeldOpen(c) ==
  \/ down[c] = "writing" /\ browser[c] = "there"
  \/ up[c] = "writing" /\ (daemon[c] = "there" \/ (daemon[c] = "eof" /\ program # "public"))
  \/ program = "python" /\ browser[c] = "there"

(* "Either side closing tears down both" (ws_bridge.go, handleBridge): when *)
(* the browser or the daemon has left, the handler returns and its slot is  *)
(* free, unless the other end holds the connection for ever.                *)
BridgeEnds ==
  \A c \in Conns :
    (place[c] = "bridged" /\ (browser[c] = "gone" \/ daemon[c] # "there"))
      ~> (place[c] = "gone" \/ []HeldOpen(c))
=============================================================================
