--------------------------- MODULE MCSensorPipeline ---------------------------
(* Humidity and temperature in the ranges of the sensor, with and without      *)
(* decimals, at both ends of the ranges, and one where they are the same.      *)
EXTENDS SensorPipeline

MCTransfers ==
  {<<45, 0, 23, 0>>, <<20, 0, 0, 0>>, <<30, 0, 30, 5>>, <<95, 9, 50, 9>>, <<20, 5, 0, 3>>}
===============================================================================
