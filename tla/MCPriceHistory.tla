---------------------------- MODULE MCPriceHistory ----------------------------
(* Two clean-ups of one product's prices.                                    *)
EXTENDS PriceHistory, TLC

CONSTANTS c1, c2, x1, x2, x3, x4

==============================================================================
