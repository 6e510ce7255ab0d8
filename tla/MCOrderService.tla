-------------------------- MODULE MCOrderService ---------------------------
\* One order, two requests at a time, two workers of the consumer, and events
\* that reach the log twice, of which one copy is delivered twice, alone or in a
\* batch.
EXTENDS OrderService
CONSTANTS o1, r1, r2, w1, w2
MCOrders == {o1}
MCRequests == {r1, r2}
MCWorkers == {w1, w2}
=============================================================================
