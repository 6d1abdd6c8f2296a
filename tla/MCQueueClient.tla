---------------------------- MODULE MCQueueClient ----------------------------
(* Two distinct calls, batches of 0 (which means 1) to 3, up to five items. *)
EXTENDS QueueClient

MCBatchSizes == 0..3
==============================================================================
