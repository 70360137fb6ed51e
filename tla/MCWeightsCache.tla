--------------------------- MODULE MCWeightsCache ---------------------------
\* Sizes in GB: A fits the card alone with a small context, B with any.
EXTENDS WeightsCache

Sizes(m) == IF m = "A" THEN [weight |-> 6, layers |-> 4, extra |-> 1]
                       ELSE [weight |-> 3, layers |-> 4, extra |-> 1]
=============================================================================
