---------------------------- MODULE MCDiscovery ----------------------------
(* Values of Discovery for TLC.                                             *)
EXTENDS Discovery

CONSTANTS
    rosary, candle, icon,   \* queries
    oakhill, stjohn,        \* funeral homes
    wax                     \* a seller

TheFallback == {"candles"}
TheCategories == {"candles"}

(* The links of the site, and URLs that were kept until their page is gone  *)
(* or that somebody has mistyped.                                           *)
TheLinks ==
    {Url("category", 0, Absent, {}, Absent), Url("category", 3, Absent, {wax}, "price_asc"),
     Url("category", 9, "5", {}, Absent), Url("category", 0, Absent, {wax}, "odd"),
     Url("storefront", 0, Absent, {}, Absent), Url("storefront", 9, "5", {}, Absent)}
ThePrices == {"5"}
=============================================================================
