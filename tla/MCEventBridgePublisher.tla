----------------------- MODULE MCEventBridgePublisher -----------------------
(* Small instances of EventBridgePublisher for TLC, with every PutEvents       *)
(* response the code can tell apart.                                           *)
EXTENDS EventBridgePublisher

AllResponses == Response
=============================================================================
