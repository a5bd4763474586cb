----------------------------- MODULE WebStation -----------------------------
(***************************************************************************)
(* A firmware upload while connections are lost: event_handler stops the   *)
(* web server before it reconnects, and httpd_stop waits until the task of *)
(* the server, which is in the upload's handler, comes to look.  The first *)
(* connection of the client carries the upload: what arrives depends on    *)
(* the client and the network, and the handler waits for it without limit. *)
(***************************************************************************)
EXTENDS Lifecycle

CONSTANTS Parts, MaxUploads, MaxResets   \* of Upload

ASSUME WebStationAssumption == {Parts, MaxUploads, MaxResets} \subseteq Nat

VARIABLES
    web,      \* the server runs
    at, remaining, handle, slots, running, boot, promised, uploads, resets

upload == <<at, remaining, handle, slots, running, boot, promised, uploads,
            resets>>
webStationVars == <<vars, web, upload>>

Upl == INSTANCE Upload

WebInit == Init /\ Upl!Init /\ web = FALSE

\* httpd_stop returns when no handler runs.
WebStop ==
    /\ WebServer /\ ev = "web_stop"
    /\ at = "idle"
    /\ web' = FALSE
    /\ UNCHANGED upload

\* start() stops a server that runs.
WebStart ==
    /\ WebServer /\ ev = "web_start"
    /\ web => at = "idle"
    /\ web' = TRUE
    /\ UNCHANGED upload

OtherCall ==
    /\ SipTask \/ EventHandler
    /\ ~(ev \in {"web_stop", "web_start"} /\ ev' # ev)
    /\ UNCHANGED <<web, upload>>

StationEvent ==
    /\ StaStart \/ StaDisconnected \/ GotIp
    /\ UNCHANGED <<web, upload>>

\* A browser's request.
UploadBegins ==
    /\ web /\ link = "up"
    /\ Upl!Request
    /\ UNCHANGED <<vars, web>>

\* Data of the browser reaches the server.
UploadReceives ==
    /\ link = "up"
    /\ Upl!Receive
    /\ UNCHANGED <<vars, web>>

\* What the handler does without the browser.
UploadHandler ==
    /\ Upl!Handler /\ ~Upl!Receive
    /\ UNCHANGED <<vars, web>>

\* The device starts anew, with what the flash holds; the counters go on.
DeviceReset ==
    /\ Upl!Reset
    /\ web' = FALSE
    /\ pc' = "wait" /\ ev' = "idle" /\ link' = "off"
    /\ bit' = FALSE /\ stopped' = FALSE /\ sip' = FALSE /\ rtp' = FALSE
    /\ resultRtp' = FALSE /\ result' = FALSE
    /\ started' = FALSE /\ handlerSet' = FALSE
    /\ UNCHANGED <<disconnects, failures>>

WebNext ==
    \/ WebStop \/ WebStart \/ OtherCall \/ StationEvent
    \/ UploadBegins \/ UploadReceives \/ UploadHandler \/ DeviceReset

\* The tasks run: those of Lifecycle, and the server's, but for ReceiveFails: the
\* connection of a client that is silent does not fail.
WebFairSpec ==
    /\ WebInit /\ [][WebNext]_webStationVars
    /\ WF_webStationVars(WebStop \/ WebStart \/ (OtherCall /\ EventHandler))
    /\ WF_webStationVars(OtherCall /\ SipTask)
    /\ WF_webStationVars(UploadHandler /\ ~Upl!ReceiveFails)
-----------------------------------------------------------------------------
(* Properties *)

\* The running image is never touched, whatever fails, whenever the connection is
\* lost or the device is reset, also when an earlier upload has chosen the other one.
RunsWholeImage == Upl!RunsWholeImage

\* Every way out of the handler has closed what it had begun.
NoHandleLeft == Upl!NoHandleLeft

\* What the web page promises at the end of an upload is true until the next one.
PromisedUntilNext == Upl!PromisedUntilNext

\* main.cpp on the call of esp_wifi_connect in event_handler: "This is a
\* workaround as ESP32 WiFi libs don't currently auto-reassociate."  So a
\* connection that is lost is followed by an attempt to get it back.  It is,
\* unless the handler of an upload waits for its client: every other place it may
\* be in when the connection is lost, and every error, leads to its end.
ReassociatesUnlessReceiving == link = "down" ~> link # "down" \/ at = "recv"
=============================================================================
