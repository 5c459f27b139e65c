---------------------- MODULE MCCastRecoveryStateMachine ----------------------
(* Small instances of CastRecoveryStateMachine for TLC.                       *)
EXTENDS CastRecoveryStateMachine

WithRecovery(values) ==
    [schema_version |-> 3, profile |-> "DETAIL_IDLE", enabled |-> TRUE,
     set |-> values]

\* Both thresholds given, equal or not, and a timeout longer and shorter than
\* the interval; the defaults of the thresholds (2 and 3).
MCBoth ==
    { WithRecovery([no_decoded_frame_timeout_ms |-> 50,
                    pli_min_interval_ms |-> 100,
                    decoder_recreate_after_failed_pli |-> 2,
                    sender_reset_after_failed_pli |-> 4]),
      WithRecovery([no_decoded_frame_timeout_ms |-> 120,
                    pli_min_interval_ms |-> 100,
                    decoder_recreate_after_failed_pli |-> 1,
                    sender_reset_after_failed_pli |-> 1]),
      WithRecovery([no_decoded_frame_timeout_ms |-> 150,
                    pli_min_interval_ms |-> 110]) }
===============================================================================
