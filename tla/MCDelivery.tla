----------------------------- MODULE MCDelivery -----------------------------
EXTENDS Delivery

MCScript == <<"IN_PROGRESS", "COMPLETED", "orch", "dispatcher">>
MCCallbacks == <<"IN_PROGRESS", "FAILED">>
MCOrch == <<"orch">>
=============================================================================
