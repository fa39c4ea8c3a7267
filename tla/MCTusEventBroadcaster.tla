-------------------------- MODULE MCTusEventBroadcaster --------------------------
(* Instances of TusEventBroadcaster for TLC. *)
EXTENDS TusEventBroadcaster, TLC

CONSTANTS requests, progress, ipRecorder, tusdLogger

\* The requests of one upload, one after the other, and the goroutine that
\* reports the progress of another upload.
TwoUploads == requests :> <<"create", "finish", "terminate">>
                @@ progress :> <<"receive", "receive2">>
================================================================================
