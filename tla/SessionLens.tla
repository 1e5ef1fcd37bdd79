------------------------------ MODULE SessionLens ------------------------------
(***************************************************************************)
(* The Session lens end to end: browser tabs (useSessionStream.ts) reading *)
(* the SSE connections of SessionRuntime.  A tab asks for the cursor it    *)
(* was mounted with; the browser's EventSource retries a broken connection *)
(* with that same URL; each frame received is folded into the tab's scene  *)
(* by applyEvent, which appends the node of a node_added event.            *)
(***************************************************************************)
EXTENDS SessionRuntime

CONSTANTS
    Tabs,        \* mounted instances of useSessionStream
    NoConn,      \* a tab without a connection
    NoCursor     \* a page URL without a usable ?seq

ASSUME NoConnAssumption == NoConn \notin Conns

VARIABLES
    tabConn,     \* the connection a tab is reading
    url,         \* the from_seq frozen in the tab's EventSource URL
    mounted,     \* tabs whose effect is active
    read,        \* frames of the current connection the tab has received
    lastSeq,     \* reducer state: highest seq applied
    scene,       \* reducer state: node_added events applied, in order
    retries      \* tabs whose EventSource has reconnected since mount

tabVars == <<tabConn, url, mounted, read, lastSeq, scene, retries>>
allVars == <<vars, tabVars>>

LensInit ==
    /\ Init
    /\ tabConn = [t \in Tabs |-> NoConn]
    /\ url = [t \in Tabs |-> 0]
    /\ mounted = {}
    /\ read = [t \in Tabs |-> 0]
    /\ lastSeq = [t \in Tabs |-> 0]
    /\ scene = [t \in Tabs |-> <<>>]
    /\ retries = {}

-------------------------------------------------------------------------------
Held(c) == \E t \in Tabs : tabConn[t] = c

(* page.tsx: a missing or unparsable ?seq starts from the beginning. *)
InitialSeq(f) == IF f = NoCursor THEN 0 ELSE f

(* The effect opens an EventSource at the page's initial cursor. *)
Mount(t, f) ==
    /\ t \notin mounted
    /\ \E c \in Conns :
          /\ Connect(c, InitialSeq(f))
          /\ tabConn' = [tabConn EXCEPT ![t] = c]
    /\ mounted' = mounted \union {t}
    /\ url' = [url EXCEPT ![t] = InitialSeq(f)]
    /\ lastSeq' = [lastSeq EXCEPT ![t] = InitialSeq(f)]
    /\ read' = [read EXCEPT ![t] = 0]
    /\ scene' = [scene EXCEPT ![t] = <<>>]
    /\ retries' = retries \ {t}

(* es.onmessage: fold the next frame into the scene and advance lastSeq. *)
Receive(t) ==
    /\ tabConn[t] # NoConn
    /\ read[t] < Len(out[tabConn[t]])
    /\ LET e == out[tabConn[t]][read[t] + 1]
       IN  /\ scene' = [scene EXCEPT ![t] = Append(@, e)]
           /\ lastSeq' = [lastSeq EXCEPT ![t] = IF e.seq > @ THEN e.seq ELSE @]
    /\ read' = [read EXCEPT ![t] = @ + 1]
    /\ UNCHANGED <<vars, tabConn, url, mounted, retries>>

(* The connection breaks: frames still on the wire are lost. *)
Drop(t) ==
    /\ tabConn[t] # NoConn
    /\ tabConn' = [tabConn EXCEPT ![t] = NoConn]
    /\ UNCHANGED <<vars, url, mounted, read, lastSeq, scene, retries>>

(* An EventSource's URL never changes; the effect builds it from seqRef. *)
RetryFromLast(t) == lastSeq[t]
RetryCursor(t) == url[t]
ShowFromUrl(t) == url[t]
ShowCursor(t) == lastSeq[t]

(* The EventSource retries the URL it was constructed with. *)
Reconnect(t) ==
    /\ t \in mounted
    /\ tabConn[t] = NoConn
    /\ \E c \in Conns :
          /\ Connect(c, RetryCursor(t))
          /\ tabConn' = [tabConn EXCEPT ![t] = c]
    /\ read' = [read EXCEPT ![t] = 0]
    /\ retries' = retries \union {t}
    /\ UNCHANGED <<url, mounted, lastSeq, scene>>

(* The effect's cleanup closes the EventSource; the hook's state survives    *)
(* while the route is kept hidden.                                           *)
Hide(t) ==
    /\ t \in mounted
    /\ mounted' = mounted \ {t}
    /\ tabConn' = [tabConn EXCEPT ![t] = NoConn]
    /\ UNCHANGED <<vars, url, read, lastSeq, scene, retries>>

(* The effect runs again on kept state: seqRef now holds lastSeq. *)
Show(t) ==
    /\ t \notin mounted
    /\ \E c \in Conns :
          /\ Connect(c, ShowCursor(t))
          /\ tabConn' = [tabConn EXCEPT ![t] = c]
    /\ mounted' = mounted \union {t}
    /\ url' = [url EXCEPT ![t] = ShowCursor(t)]
    /\ read' = [read EXCEPT ![t] = 0]
    /\ UNCHANGED <<lastSeq, scene, retries>>

(* The server notices that the client of connection c is gone. *)
ServerSeesClose(c) ==
    /\ ~Held(c)
    /\ Abort(c)
    /\ UNCHANGED tabVars

Server ==
    /\ \/ \E c \in Conns : Generator(c)
       \/ \E m \in Turns : SendMessage(m) \/ RunResolved(m) \/ Emit(m) \/ PumpEnds(m)
    /\ UNCHANGED tabVars

LensNext ==
    \/ Server
    \/ \E c \in Conns : ServerSeesClose(c)
    \/ \E t \in Tabs : \/ \E f \in Cursors \union {NoCursor} : Mount(t, f)
                       \/ Receive(t) \/ Drop(t) \/ Reconnect(t) \/ Hide(t) \/ Show(t)

LensSpec == LensInit /\ [][LensNext]_allVars

-------------------------------------------------------------------------------
(* Properties *)

(* useSessionStream.ts reducer + seqRef: until the EventSource retries on    *)
(* its own, the scene holds each envelope once and in emission order, also   *)
(* across a hide and show that resumes from lastSeq.                         *)
SceneCleanUntilRetry ==
    \A t \in Tabs \ retries : \A i, j \in 1..Len(scene[t]) :
        i < j => scene[t][i].seq < scene[t][j].seq

(* useSessionStream.ts EventSource URL: because a retry asks for the mounted *)
(* cursor again, its replay re-offers every retained envelope the tab missed *)
(* while it was live or disconnected (below MAX_BUFFER).                     *)
Offered(t, e) ==
    \/ \E k \in 1..Len(scene[t]) : scene[t][k] = e
    \/ \E k \in (read[t] + 1)..Len(out[tabConn[t]]) : out[tabConn[t]][k] = e

ReplayHealsTab ==
    [][\A t \in Tabs : (tabConn[t] # NoConn /\ LeavesReplay(tabConn[t])) =>
          \/ Len(buffer) = MaxBuffer
          \/ \A i \in 1..Len(buffer) :
                buffer[i].seq > url[t] => Offered(t, buffer[i])]_allVars

===============================================================================
