------------------------------- MODULE Upload -------------------------------
(***************************************************************************)
(* A firmware upload: upload_handler of WebServer, which the server's task *)
(* runs from the first byte to the last, and what it does to the flash and *)
(* to the choice of the image the bootloader starts.                       *)
(*                                                                         *)
(* Two application partitions are used in turn: one runs, the other is the *)
(* one to update, whichever of them is to be booted.  The calls of the OTA *)
(* library may fail.  The device may be reset at any time, by the web page *)
(* or by a power cut; the bootloader starts the image chosen last, and the *)
(* other one if that is not whole.  Images are numbered, the current one   *)
(* is 0; the image is received in parts.                                   *)
(***************************************************************************)
EXTENDS Integers

CONSTANTS
    Parts,        \* content_len, in what one httpd_req_recv returns
    MaxUploads,   \* bound on the uploads
    MaxResets     \* bound on the resets

VARIABLES
    at,          \* where upload_handler is, "idle" when it does not run
    remaining,   \* parts still to be received
    handle,      \* an OTA handle is open
    slots,       \* each partition's image, its parts there, and whether it is valid
    running,     \* the partition that runs
    boot,        \* the partition esp_ota_set_boot_partition chose last
    promised,    \* history: the image the web page said a reset would apply, or 0
    uploads, resets

vars == <<at, remaining, handle, slots, running, boot, promised, uploads, resets>>

Partitions == {0, 1}
NextToBoot == 1 - boot   \* mutant: the partition that is not chosen

Update == 1 - running   \* esp_ota_get_next_update_partition

Whole(p) == slots[p].parts = Parts /\ slots[p].valid

\* Every variable keeps its shape.
TypeOK ==
    /\ at \in {"idle", "begin", "recv", "abort", "write", "end", "set_boot"}
    /\ remaining \in 0..Parts
    /\ handle \in BOOLEAN
    /\ slots \in [Partitions -> [image : 0..MaxUploads, parts : 0..Parts,
                             valid : BOOLEAN]]
    /\ running \in Partitions /\ boot \in Partitions
    /\ promised \in 0..MaxUploads
    /\ uploads \in 0..MaxUploads /\ resets \in 0..MaxResets

Init ==
    /\ at = "idle" /\ remaining = 0 /\ handle = FALSE
    /\ slots = [p \in Partitions |-> [image |-> 0, parts |-> Parts, valid |-> TRUE]]
    /\ running = 0 /\ boot = 0
    /\ promised = 0 /\ uploads = 0 /\ resets = 0

Goto(from, to) == at = from /\ at' = to

\* The handler replies with an error and returns.
Fail(from) == Goto(from, "idle")

\* A request that is not too large, and a partition for it.
Request ==
    /\ Goto("idle", "begin")
    /\ uploads < MaxUploads /\ uploads' = uploads + 1
    /\ UNCHANGED <<remaining, handle, slots, running, boot, promised, resets>>

\* esp_ota_begin erases the partition.  The file may be anything.
Begin ==
    /\ Goto("begin", "recv")
    /\ handle' = TRUE
    /\ \E valid \in BOOLEAN :
           slots' = [slots EXCEPT ![Update] =
                        [image |-> uploads, parts |-> 0, valid |-> valid]]
    /\ remaining' = Parts
    /\ UNCHANGED <<running, boot, promised, uploads, resets>>

\* It fails before or after it has erased some of it.
BeginFails ==
    /\ Fail("begin")
    /\ \E kept \in {slots[Update].parts, 0} : slots' = [slots EXCEPT ![Update].parts = kept]
    /\ UNCHANGED <<remaining, handle, running, boot, promised, uploads, resets>>

Received == remaining = 0

Receive ==
    /\ ~Received /\ Goto("recv", "write")
    /\ UNCHANGED <<remaining, handle, slots, running, boot, promised, uploads,
                   resets>>

\* Nothing within the time limit: the loop goes on, remaining is as before.
ReceiveTimesOut ==
    /\ ~Received /\ at = "recv"
    /\ UNCHANGED vars

ReceiveFails ==
    /\ ~Received /\ Goto("recv", "abort")
    /\ UNCHANGED <<remaining, handle, slots, running, boot, promised, uploads,
                   resets>>

Write ==
    /\ Goto("write", "recv")
    /\ slots' = [slots EXCEPT ![Update].parts = @ + 1]
    /\ remaining' = remaining - 1
    /\ UNCHANGED <<handle, running, boot, promised, uploads, resets>>

WriteFails ==
    /\ Goto("write", "abort")
    /\ UNCHANGED <<remaining, handle, slots, running, boot, promised, uploads,
                   resets>>

StillOpen == UNCHANGED handle   \* mutant: a return without esp_ota_abort

Closed == handle' = FALSE

\* esp_ota_abort; its own error is only logged.
Abort ==
    /\ Fail("abort")
    /\ Closed
    /\ UNCHANGED <<remaining, slots, running, boot, promised, uploads, resets>>

\* The image is complete.
AllReceived ==
    /\ Received /\ Goto("recv", "end")
    /\ UNCHANGED <<remaining, handle, slots, running, boot, promised, uploads,
                   resets>>

\* esp_ota_end closes the handle, whether it finds the image valid or not.
End ==
    /\ Goto("end", "set_boot") /\ Whole(Update)
    /\ handle' = FALSE
    /\ UNCHANGED <<remaining, slots, running, boot, promised, uploads, resets>>

EndFails ==
    /\ Fail("end")
    /\ handle' = FALSE
    /\ UNCHANGED <<remaining, slots, running, boot, promised, uploads, resets>>

\* esp_ota_set_boot_partition, and the reply 204, at which the page says "Upload
\* finished successfully, reset to apply update!".
SetBoot ==
    /\ Goto("set_boot", "idle") /\ Whole(Update)
    /\ boot' = Update /\ promised' = uploads
    /\ UNCHANGED <<remaining, handle, slots, running, uploads, resets>>

FailureUnnoticed ==   \* mutant: the result is not looked at
    /\ Fail("set_boot")
    /\ promised' = uploads
    /\ UNCHANGED <<remaining, handle, slots, running, boot, uploads, resets>>

SetBootFails ==
    /\ Fail("set_boot")
    /\ UNCHANGED <<remaining, handle, slots, running, boot, promised, uploads,
                   resets>>

\* A reset, and the bootloader.
Reset ==
    /\ resets < MaxResets /\ resets' = resets + 1
    /\ running' = IF Whole(boot) THEN boot ELSE 1 - boot
    /\ at' = "idle" /\ remaining' = 0 /\ handle' = FALSE /\ promised' = 0
    /\ UNCHANGED <<slots, boot, uploads>>

Handler ==
    \/ Begin \/ BeginFails \/ Receive \/ ReceiveTimesOut \/ ReceiveFails
    \/ Write \/ WriteFails \/ Abort \/ AllReceived
    \/ End \/ EndFails \/ SetBoot \/ SetBootFails

Next == Request \/ Handler \/ Reset

Spec == Init /\ [][Next]_vars
-----------------------------------------------------------------------------
(* Properties *)

\* The running image is never touched, whatever fails and whenever the device is
\* reset, also when an earlier upload has chosen the other one already.
RunsWholeImage == Whole(running)

\* Every way out of the handler has closed what it had begun.
NoHandleLeft == at = "idle" => ~handle

Applied == Whole(boot) /\ slots[boot].image = promised

\* What the web page promises is true until the next upload: a reset applies it.
\* The next one erases the image that was to be booted, and may fail.
PromisedUntilNext == promised # 0 /\ promised = uploads => Applied
=============================================================================
