------------------------------- MODULE CrcTable ------------------------------
(***************************************************************************)
(* crc_table of src/src/crc32.c.  A 32-bit word is the set of the          *)
(* positions of its 1 bits; TLC's integers do not hold an unsigned 32-bit  *)
(* constant, so the upper and the lower halves of the 256 constants are    *)
(* listed apart.                                                           *)
(***************************************************************************)
EXTENDS Integers

TableUpper == <<
  \h0000, \h7707, \hEE0E, \h9909, \h076D, \h706A, \hE963, \h9E64, \h0EDB, \h79DC,
  \hE0D5, \h97D2, \h09B6, \h7EB1, \hE7B8, \h90BF, \h1DB7, \h6AB0, \hF3B9, \h84BE,
  \h1ADA, \h6DDD, \hF4D4, \h83D3, \h136C, \h646B, \hFD62, \h8A65, \h1401, \h6306,
  \hFA0F, \h8D08, \h3B6E, \h4C69, \hD560, \hA267, \h3C03, \h4B04, \hD20D, \hA50A,
  \h35B5, \h42B2, \hDBBB, \hACBC, \h32D8, \h45DF, \hDCD6, \hABD1, \h26D9, \h51DE,
  \hC8D7, \hBFD0, \h21B4, \h56B3, \hCFBA, \hB8BD, \h2802, \h5F05, \hC60C, \hB10B,
  \h2F6F, \h5868, \hC161, \hB666, \h76DC, \h01DB, \h98D2, \hEFD5, \h71B1, \h06B6,
  \h9FBF, \hE8B8, \h7807, \h0F00, \h9609, \hE10E, \h7F6A, \h086D, \h9164, \hE663,
  \h6B6B, \h1C6C, \h8565, \hF262, \h6C06, \h1B01, \h8208, \hF50F, \h65B0, \h12B7,
  \h8BBE, \hFCB9, \h62DD, \h15DA, \h8CD3, \hFBD4, \h4DB2, \h3AB5, \hA3BC, \hD4BB,
  \h4ADF, \h3DD8, \hA4D1, \hD3D6, \h4369, \h346E, \hAD67, \hDA60, \h4404, \h3303,
  \hAA0A, \hDD0D, \h5005, \h2702, \hBE0B, \hC90C, \h5768, \h206F, \hB966, \hCE61,
  \h5EDE, \h29D9, \hB0D0, \hC7D7, \h59B3, \h2EB4, \hB7BD, \hC0BA, \hEDB8, \h9ABF,
  \h03B6, \h74B1, \hEAD5, \h9DD2, \h04DB, \h73DC, \hE363, \h9464, \h0D6D, \h7A6A,
  \hE40E, \h9309, \h0A00, \h7D07, \hF00F, \h8708, \h1E01, \h6906, \hF762, \h8065,
  \h196C, \h6E6B, \hFED4, \h89D3, \h10DA, \h67DD, \hF9B9, \h8EBE, \h17B7, \h60B0,
  \hD6D6, \hA1D1, \h38D8, \h4FDF, \hD1BB, \hA6BC, \h3FB5, \h48B2, \hD80D, \hAF0A,
  \h3603, \h4104, \hDF60, \hA867, \h316E, \h4669, \hCB61, \hBC66, \h256F, \h5268,
  \hCC0C, \hBB0B, \h2202, \h5505, \hC5BA, \hB2BD, \h2BB4, \h5CB3, \hC2D7, \hB5D0,
  \h2CD9, \h5BDE, \h9B64, \hEC63, \h756A, \h026D, \h9C09, \hEB0E, \h7207, \h0500,
  \h95BF, \hE2B8, \h7BB1, \h0CB6, \h92D2, \hE5D5, \h7CDC, \h0BDB, \h86D3, \hF1D4,
  \h68DD, \h1FDA, \h81BE, \hF6B9, \h6FB0, \h18B7, \h8808, \hFF0F, \h6606, \h1101,
  \h8F65, \hF862, \h616B, \h166C, \hA00A, \hD70D, \h4E04, \h3903, \hA767, \hD060,
  \h4969, \h3E6E, \hAED1, \hD9D6, \h40DF, \h37D8, \hA9BC, \hDEBB, \h47B2, \h30B5,
  \hBDBD, \hCABA, \h53B3, \h24B4, \hBAD0, \hCDD7, \h54DE, \h23D9, \hB366, \hC461,
  \h5D68, \h2A6F, \hB40B, \hC30C, \h5A05, \h2D02 >>

TableLower == <<
  \h0000, \h3096, \h612C, \h51BA, \hC419, \hF48F, \hA535, \h95A3, \h8832, \hB8A4,
  \hE91E, \hD988, \h4C2B, \h7CBD, \h2D07, \h1D91, \h1064, \h20F2, \h7148, \h41DE,
  \hD47D, \hE4EB, \hB551, \h85C7, \h9856, \hA8C0, \hF97A, \hC9EC, \h5C4F, \h6CD9,
  \h3D63, \h0DF5, \h20C8, \h105E, \h41E4, \h7172, \hE4D1, \hD447, \h85FD, \hB56B,
  \hA8FA, \h986C, \hC9D6, \hF940, \h6CE3, \h5C75, \h0DCF, \h3D59, \h30AC, \h003A,
  \h5180, \h6116, \hF4B5, \hC423, \h9599, \hA50F, \hB89E, \h8808, \hD9B2, \hE924,
  \h7C87, \h4C11, \h1DAB, \h2D3D, \h4190, \h7106, \h20BC, \h102A, \h8589, \hB51F,
  \hE4A5, \hD433, \hC9A2, \hF934, \hA88E, \h9818, \h0DBB, \h3D2D, \h6C97, \h5C01,
  \h51F4, \h6162, \h30D8, \h004E, \h95ED, \hA57B, \hF4C1, \hC457, \hD9C6, \hE950,
  \hB8EA, \h887C, \h1DDF, \h2D49, \h7CF3, \h4C65, \h6158, \h51CE, \h0074, \h30E2,
  \hA541, \h95D7, \hC46D, \hF4FB, \hE96A, \hD9FC, \h8846, \hB8D0, \h2D73, \h1DE5,
  \h4C5F, \h7CC9, \h713C, \h41AA, \h1010, \h2086, \hB525, \h85B3, \hD409, \hE49F,
  \hF90E, \hC998, \h9822, \hA8B4, \h3D17, \h0D81, \h5C3B, \h6CAD, \h8320, \hB3B6,
  \hE20C, \hD29A, \h4739, \h77AF, \h2615, \h1683, \h0B12, \h3B84, \h6A3E, \h5AA8,
  \hCF0B, \hFF9D, \hAE27, \h9EB1, \h9344, \hA3D2, \hF268, \hC2FE, \h575D, \h67CB,
  \h3671, \h06E7, \h1B76, \h2BE0, \h7A5A, \h4ACC, \hDF6F, \hEFF9, \hBE43, \h8ED5,
  \hA3E8, \h937E, \hC2C4, \hF252, \h67F1, \h5767, \h06DD, \h364B, \h2BDA, \h1B4C,
  \h4AF6, \h7A60, \hEFC3, \hDF55, \h8EEF, \hBE79, \hB38C, \h831A, \hD2A0, \hE236,
  \h7795, \h4703, \h16B9, \h262F, \h3BBE, \h0B28, \h5A92, \h6A04, \hFFA7, \hCF31,
  \h9E8B, \hAE1D, \hC2B0, \hF226, \hA39C, \h930A, \h06A9, \h363F, \h6785, \h5713,
  \h4A82, \h7A14, \h2BAE, \h1B38, \h8E9B, \hBE0D, \hEFB7, \hDF21, \hD2D4, \hE242,
  \hB3F8, \h836E, \h16CD, \h265B, \h77E1, \h4777, \h5AE6, \h6A70, \h3BCA, \h0B5C,
  \h9EFF, \hAE69, \hFFD3, \hCF45, \hE278, \hD2EE, \h8354, \hB3C2, \h2661, \h16F7,
  \h474D, \h77DB, \h6A4A, \h5ADC, \h0B66, \h3BF0, \hAE53, \h9EC5, \hCF7F, \hFFE9,
  \hF21C, \hC28A, \h9330, \hA3A6, \h3605, \h0693, \h5729, \h67BF, \h7A2E, \h4AB8,
  \h1B02, \h2B94, \hBE37, \h8EA1, \hDF1B, \hEF8D >>

(* The positions of the 1 bits of n, counted from 0. *)
BitsOf(n) == {k \in 0 .. 15 : (n \div 2^k) % 2 = 1}

(* A byte as the index it is: the sum of its bits. *)
Index(b) ==
  LET bit(k) == IF k \in b THEN 2^k ELSE 0 IN
  bit(0) + bit(1) + bit(2) + bit(3) + bit(4) + bit(5) + bit(6) + bit(7)

crc_table ==
  [b \in SUBSET (0 .. 7) |->
     BitsOf(TableLower[Index(b) + 1])
       \cup {16 + k : k \in BitsOf(TableUpper[Index(b) + 1])}]
==============================================================================
