---------------------------- MODULE MCBookStore ----------------------------
\* TLC instance of BookStore: one token, two or three prices.
EXTENDS BookStore, TLC

CONSTANTS t1

NoPrice   == {}
OnePrice  == {1}
OneToken  == {t1}
TwoPrices == {1, 2}
ThreePrices == {1, 2, 4}
=============================================================================
