-------------------------------- MODULE Fourcc --------------------------------
(***************************************************************************)
(* The pixel formats of tables.rs: the rows of 00-fourcc-table.csv as      *)
(* parse_fourcc_csv reads them, and the plane geometry that decoder.rs and *)
(* encoder.rs both derive from a row.                                      *)
(***************************************************************************)
EXTENDS Integers

(* One row: bit depth, planes, family and chroma subsampling. *)
Row(depth, planes, family, subX, subY) ==
  [depth |-> depth, planes |-> planes, family |-> family,
   subX |-> subX, subY |-> subY]

FourccTable ==
  [M8RG |-> Row( 8, 3, "RGB",  1, 1),  M8RA |-> Row( 8, 4, "RGBA", 1, 1),
   M8Y4 |-> Row( 8, 3, "YUV",  1, 1),  M8Y2 |-> Row( 8, 3, "YUV",  2, 1),
   M8Y0 |-> Row( 8, 3, "YUV",  2, 2),  M8YA |-> Row( 8, 4, "YUVA", 1, 1),
   M8G0 |-> Row( 8, 1, "Gray", 1, 1),  M0Y2 |-> Row(10, 3, "YUV",  2, 1),
   M0RG |-> Row(10, 3, "RGB",  1, 1),  M0RA |-> Row(10, 4, "RGBA", 1, 1),
   M2RG |-> Row(12, 3, "RGB",  1, 1),  M2RA |-> Row(12, 4, "RGBA", 1, 1),
   M4RG |-> Row(14, 3, "RGB",  1, 1),  M4RA |-> Row(14, 4, "RGBA", 1, 1),
   M0G0 |-> Row(10, 1, "Gray", 1, 1),  M0Y4 |-> Row(10, 3, "YUV",  1, 1),
   M0Y0 |-> Row(10, 3, "YUV",  2, 2)]

(* The rows there may be: RGB has a plane for each of its three colours.     *)
FourccRecords ==
  {rec \in [depth : {8, 10, 12, 14}, planes : {1, 3, 4},
            family : {"RGB", "RGBA", "YUV", "YUVA", "Gray"},
            subX : {1, 2}, subY : {1, 2}] :
     rec.family \in {"RGB", "RGBA"} => rec.planes >= 3}

------------------------------------------------------------------------------
CeilDiv(a, b) == (a + b - 1) \div b
Lower(a, b)   == IF a < b THEN a ELSE b

Planes(rec) == 0 .. rec.planes - 1

(* Planes 1 and 2 of a YUV or YUVA format are the subsampled ones. *)
Chroma(rec, p) == rec.family \in {"YUV", "YUVA"} /\ p \in {1, 2}

SubX(rec, p) == IF Chroma(rec, p) THEN rec.subX ELSE 1
SubY(rec, p) == IF Chroma(rec, p) THEN rec.subY ELSE 1

(* plane_geom: width and height of a plane, rows per slice of it. *)
PlaneGeom(rec, p, width, height, sliceHeight) ==
  [width       |-> width \div SubX(rec, p),
   height      |-> height \div SubY(rec, p),
   sliceHeight |-> sliceHeight \div SubY(rec, p)]

(* Rows row_start .. row_end - 1 of the k-th slice of a plane. *)
RowStart(g, k) == k * g.sliceHeight
RowEnd(g, k)   == Lower((k + 1) * g.sliceHeight, g.height)
SliceRows(g, k) == RowStart(g, k) .. RowEnd(g, k) - 1
==============================================================================
